---------------------------- MODULE Spec2Model ----------------------------
(***************************************************************************)
(* PG Manager (gautham1419/pg-harmony): the store (tables, constraints and *)
(* row-level-security policies of the SQL migration) and the page handlers *)
(* that read and write it.                                                 *)
(*                                                                         *)
(* A nullable column or state is a sequence of length at most one:         *)
(* <<>> is null, <<v>> is the value v.  An issue_description is modelled   *)
(* by its length (String.length), the only thing the code reads of it.     *)
(* Lists the pages hold are modelled as sets: the ORDER BY of a query      *)
(* decides nothing but the order of display.                               *)
(***************************************************************************)
EXTENDS Integers, FiniteSets, Sequences, TLC

VARIABLES
    auth_users,            \* table auth.users: the principals (id, email)
    user_roles,            \* table public.user_roles
    tenants,               \* table public.tenants
    rent_payments,         \* table public.rent_payments
    maintenance_requests,  \* table public.maintenance_requests
    serverNow,             \* the database server's clock, now()
    userRole,              \* useAuth().userRole of each browser session
    view,                  \* the mounted page of each session and its React state
    toast,                 \* the notification raised last, and the session it is in
    probe,                 \* a validator input and the verdict on it
    reply                  \* the store's answer to the last direct call

vars == <<auth_users, user_roles, tenants, rent_payments, maintenance_requests,
          serverNow, userRole, view, toast, probe, reply>>

-----------------------------------------------------------------------------
(* Bounds of the model *)

MaxPayments == 2
MaxRequests == 2
MaxTime == 1
MaxSkew == 1
MaxDeviations == 1
MaxProbeLen == 1002
MaxTenants == 3
MaxSignUps == 2

(* Program constants *)

MinMonth == 1
MaxMonth == 12
MinYear == 2000
MaxYear == 2100
NumericLimit == 100000000
MinDescription == 10
MaxDescription == 1000
OpenRequestsLimit == 5
MaxNameLen == 100
MaxRoomLen == 10
MinContactLen == 10
MaxContactLen == 15
MinPasswordLen == 6

Null == <<>>
Some(v) == <<v>>

\* The principals that sign in: two admins, two tenants and n1, who has
\* signed up but has no user_roles row.
Users == {"a1", "a2", "u1", "u2", "n1"}

\* Values a form field or a direct call can carry.
FormTenantIds == {"", "T1", "T2"}
FormMonths == {MinMonth - 1, MinMonth, MaxMonth, MaxMonth + 1}
FormYears == {MinYear - 1, MinYear, MaxYear, MaxYear + 1}
FormAmounts == {-1, 0, 5000, NumericLimit}
FormDates == {1, 2}
FormLengths == {MinDescription - 1, MinDescription, MaxDescription + 1}
\* Periods the month / year selectors of a page are set to.
SelMonths == {MinMonth, MaxMonth}
SelYears == {MinYear}
Filters == {"all", "open", "resolved"}
\* Offsets of a browser's clock from the server's.
Skews == (0 - MaxSkew) .. MaxSkew

-----------------------------------------------------------------------------
(* SQL functions and row-level-security policies *)

has_role(_user_id, _role) ==
    \E r \in user_roles : r.user_id = _user_id /\ r.role = _role

\* SELECT id FROM tenants WHERE auth_user_id = _user_id LIMIT 1 (null when none)
get_tenant_id_for_user(_user_id) ==
    LET own == {t \in tenants : t.auth_user_id = Some(_user_id)}
    IN  IF own = {} THEN Null ELSE Some((CHOOSE t \in own : TRUE).id)

TenantsSelectPolicy(uid, row) ==
    has_role(uid, "admin") \/ row.auth_user_id = Some(uid)

RentPaymentsSelectPolicyAnyTenant(uid, row) ==
    has_role(uid, "admin") \/ has_role(uid, "tenant")

RentPaymentsSelectPolicy(uid, row) ==
    has_role(uid, "admin") \/ Some(row.tenant_id) = get_tenant_id_for_user(uid)

RentPaymentsInsertPolicy(uid, row) ==
    has_role(uid, "admin")

RequestsSelectPolicy(uid, row) ==
    has_role(uid, "admin") \/ Some(row.tenant_id) = get_tenant_id_for_user(uid)

RequestsInsertPolicyAnyTenant(uid, row) ==
    has_role(uid, "admin") \/ get_tenant_id_for_user(uid) # Null

RequestsInsertPolicy(uid, row) ==
    has_role(uid, "admin") \/ Some(row.tenant_id) = get_tenant_id_for_user(uid)

RequestsUpdatePolicyTenantOwn(uid, row) ==
    has_role(uid, "admin") \/ Some(row.tenant_id) = get_tenant_id_for_user(uid)

RequestsUpdatePolicy(uid, row) ==
    has_role(uid, "admin")

RequestsDeletePolicy(uid, row) ==
    has_role(uid, "admin")

\* INSERT, UPDATE and DELETE on tenants and UPDATE and DELETE on
\* rent_payments have the admins' FOR ALL policy and no other.
TenantsWritePolicyLinked(uid, row) ==
    has_role(uid, "admin") \/ row.auth_user_id = Some(uid)

TenantsWritePolicy(uid, row) ==
    has_role(uid, "admin")

RentPaymentsWritePolicy(uid, row) ==
    has_role(uid, "admin")

UserRolesWritePolicyOwn(uid, row) ==
    has_role(uid, "admin") \/ row.user_id = uid

\* user_roles: "Admins can manage roles" FOR ALL is the only policy for
\* INSERT, UPDATE and DELETE.
UserRolesWritePolicy(uid, row) ==
    has_role(uid, "admin")

-----------------------------------------------------------------------------
(* Table constraints *)

IsUuid(s) == s # ""

NumericFits(n) == n > 0 - NumericLimit /\ n < NumericLimit

RentPaymentsCheck(row) ==
    /\ row.month >= MinMonth /\ row.month <= MaxMonth
    /\ row.year >= MinYear /\ row.year <= MaxYear

RentPaymentsUniqueOff(rows, row) == FALSE

\* UNIQUE (tenant_id, month, year)
RentPaymentsUniqueViolation(rows, row) ==
    \E r \in rows : /\ r.tenant_id = row.tenant_id
                    /\ r.month = row.month
                    /\ r.year = row.year

TenantExists(tid) == \E t \in tenants : t.id = tid

NextId(rows) ==
    IF rows = {} THEN 1
    ELSE (CHOOSE i \in {r.id : r \in rows} : \A r \in rows : r.id <= i) + 1

\* The outcome of INSERT INTO rent_payments by uid: "ok" or the SQLSTATE.
RentPaymentsInsertError(uid, row) ==
    IF ~IsUuid(row.tenant_id) THEN "22P02"
    ELSE IF ~NumericFits(row.amount) THEN "22003"
    ELSE IF ~RentPaymentsInsertPolicy(uid, row) THEN "42501"
    ELSE IF ~RentPaymentsCheck(row) THEN "23514"
    ELSE IF RentPaymentsUniqueViolation(rent_payments, row) THEN "23505"
    ELSE IF ~TenantExists(row.tenant_id) THEN "23503"
    ELSE "ok"

\* The outcome of INSERT INTO maintenance_requests by uid.
RequestsInsertError(uid, row) ==
    IF ~RequestsInsertPolicy(uid, row) THEN "42501"
    ELSE IF row.status \notin {"open", "resolved"} THEN "23514"
    ELSE IF ~TenantExists(row.tenant_id) THEN "23503"
    ELSE "ok"

-----------------------------------------------------------------------------
(* Page state *)

AdminRoutes == {"/tenants", "/rent", "/maintenance"}
TenantRoutes == {"/my-rent", "/submit-request"}

NoToast == [by |-> "", title |-> "", description |-> ""]

NoReply == [by |-> "", command |-> "", error |-> "", count |-> 0]

\* A string of n characters.
RECURSIVE Str(_)
Str(n) == IF n = 0 THEN "" ELSE "x" \o Str(n - 1)

\* formData of RentTracking as useState sets it and handleSubmit resets it
\* (month and year of the browser's date; the empty amount is 0 here).
EmptyPaymentForm ==
    [tenant_id |-> "", month |-> MinMonth, year |-> MinYear, amount |-> 0,
     paid_on |-> 1]

\* formData of TenantManagement as useState sets it and handleSubmit resets
\* it (Number('') is 0).
EmptyTenantForm ==
    [name |-> "", room_no |-> "", contact |-> "", deposit_amount |-> 0,
     email |-> "", password |-> ""]

\* The React state of a freshly mounted page (the useState initial values;
\* m, y: the month and year of the browser's date).
InitialView(route, m, y) ==
    [route |-> route, loading |-> TRUE,
     tenants |-> {}, payments |-> {}, paidTenants |-> {}, openRequests |-> {},
     selectedMonth |-> m, selectedYear |-> y,
     requests |-> {}, filter |-> "all",
     tenantInfo |-> Null, issueDescription |-> 0,
     dialogOpen |-> FALSE, paymentForm |-> EmptyPaymentForm,
     tenantForm |-> EmptyTenantForm, pc |-> "idle", newUser |-> Null,
     refetch |-> FALSE, pending |-> {}, captured |-> <<>>,
     submitting |-> FALSE]

\* The month and year of the browser's date when a page mounts (only the
\* Dashboard and RentTracking hold them).
MountPeriods(route) ==
    IF route \in {"/", "/rent"} THEN SelMonths \X SelYears
    ELSE {<<MinMonth, MinYear>>}

GateRedirectsAdminPagesOnly(role, route) ==
    route \in AdminRoutes /\ role # Null /\ role # Some("admin")

\* The role gate of a page: navigate('/') when the role is known and is not
\* the page's role.
GateRedirects(role, route) ==
    \/ route \in AdminRoutes /\ role # Null /\ role # Some("admin")
    \/ route \in TenantRoutes /\ role # Null /\ role # Some("tenant")

TenantBrief(t) == [id |-> t.id, name |-> t.name, room_no |-> t.room_no]

VisibleTenants(uid) == {t \in tenants : TenantsSelectPolicy(uid, t)}

PaymentsOfPeriodAnyYear(uid, m, y) ==
    {r \in rent_payments : RentPaymentsSelectPolicy(uid, r) /\ r.month = m}

\* rent_payments WHERE month = m AND year = y, as uid sees them
PaymentsOfPeriod(uid, m, y) ==
    {r \in rent_payments :
        RentPaymentsSelectPolicy(uid, r) /\ r.month = m /\ r.year = y}

VisibleRequests(uid) ==
    {r \in maintenance_requests : RequestsSelectPolicy(uid, r)}

\* ORDER BY created_at DESC LIMIT n
MostRecent(rows, n) ==
    {r \in rows :
        Cardinality({s \in rows : \/ s.created_at > r.created_at
                                  \/ s.created_at = r.created_at /\ s.id > r.id}) < n}

paidTenantIds(payments) == {p.tenant_id : p \in payments}

\* RentTracking: the tenants with no payment in the fetched list
unpaidTenants(tenantList, payments) ==
    {t \in tenantList : t.id \notin paidTenantIds(payments)}

\* Dashboard: the tenants whose id is not among the paid ids
dueTenants(tenantList, paid) == {t \in tenantList : t.id \notin paid}

-----------------------------------------------------------------------------
(* Identity *)

\* useAuth(): the role of the signed-in user becomes known.  The gate effect
\* of the mounted page runs; the Dashboard effect re-runs its fetch.
RoleResolved(p) ==
    /\ userRole[p] = Null
    /\ \E r \in user_roles :
         /\ r.user_id = p
         /\ userRole' = [userRole EXCEPT ![p] = Some(r.role)]
         /\ \E d \in MountPeriods("/") :
              view' = [view EXCEPT ![p] =
                 IF GateRedirects(Some(r.role), @.route)
                    THEN InitialView("/", d[1], d[2])
                 ELSE IF @.route = "/" THEN [@ EXCEPT !.loading = TRUE]
                 ELSE @]
    /\ UNCHANGED <<auth_users, user_roles, tenants, rent_payments, maintenance_requests,
                   serverNow, toast, probe, reply>>

\* ProtectedRoute without a user: <Navigate to="/auth">, no page mounted.
SignedOutView ==
    [InitialView("/auth", MinMonth, MinYear) EXCEPT !.loading = FALSE]

\* The resolver finds no role record for the signed-in user: the session is
\* ended and the user has to authenticate again.
RoleRecordMissing(p) ==
    /\ userRole[p] = Null
    /\ view[p].route # "/auth"
    /\ \A r \in user_roles : r.user_id # p
    /\ view' = [view EXCEPT ![p] = SignedOutView]
    /\ UNCHANGED <<auth_users, user_roles, tenants, rent_payments,
                   maintenance_requests, serverNow, userRole, toast, probe,
                   reply>>

\* The user opens a route: the page mounts (and its gate sends a user of the
\* wrong role back to '/').
Navigate(p, route) ==
    LET to == IF GateRedirects(userRole[p], route) THEN "/" ELSE route
    IN  /\ \E d \in MountPeriods(to) :
             view' = [view EXCEPT ![p] = InitialView(to, d[1], d[2])]
        /\ UNCHANGED <<auth_users, user_roles, tenants, rent_payments, maintenance_requests,
                       serverNow, userRole, toast, probe, reply>>

-----------------------------------------------------------------------------
(* Dashboard *)

DashboardFetchAdminData(p) ==
    /\ view[p].route = "/"
    /\ view[p].loading
    /\ userRole[p] = Some("admin")
    /\ view' = [view EXCEPT ![p] =
          [@ EXCEPT !.tenants = VisibleTenants(p),
                    !.paidTenants = paidTenantIds(
                        PaymentsOfPeriod(p, view[p].selectedMonth,
                                         view[p].selectedYear)),
                    !.openRequests = MostRecent(
                        {r \in VisibleRequests(p) : r.status = "open"},
                        OpenRequestsLimit),
                    !.loading = FALSE]]
    /\ UNCHANGED <<auth_users, user_roles, tenants, rent_payments, maintenance_requests,
                   serverNow, userRole, toast, probe, reply>>

DashboardFetchTenantData(p) ==
    /\ view[p].route = "/"
    /\ view[p].loading
    /\ userRole[p] # Some("admin")
    /\ view' = [view EXCEPT ![p] =
          [@ EXCEPT !.openRequests =
                        {r \in VisibleRequests(p) : r.status = "open"},
                    !.loading = FALSE]]
    /\ UNCHANGED <<auth_users, user_roles, tenants, rent_payments, maintenance_requests,
                   serverNow, userRole, toast, probe, reply>>

\* The month / year selectors (rendered only when not loading); the effect
\* on [userRole, selectedMonth, selectedYear] starts the fetch again.
DashboardSelectPeriod(p, m, y) ==
    /\ view[p].route = "/"
    /\ ~view[p].loading
    /\ userRole[p] = Some("admin")
    /\ <<m, y>> # <<view[p].selectedMonth, view[p].selectedYear>>
    /\ view' = [view EXCEPT ![p] =
          [@ EXCEPT !.selectedMonth = m, !.selectedYear = y, !.loading = TRUE]]
    /\ UNCHANGED <<auth_users, user_roles, tenants, rent_payments, maintenance_requests,
                   serverNow, userRole, toast, probe, reply>>

-----------------------------------------------------------------------------
(* RentTracking *)

RentTrackingFetchData(p) ==
    /\ view[p].route = "/rent"
    /\ view[p].loading
    /\ view' = [view EXCEPT ![p] =
          [@ EXCEPT !.tenants = {TenantBrief(t) : t \in VisibleTenants(p)},
                    !.payments =
                        PaymentsOfPeriod(p, view[p].selectedMonth,
                                         view[p].selectedYear),
                    !.loading = FALSE]]
    /\ UNCHANGED <<auth_users, user_roles, tenants, rent_payments, maintenance_requests,
                   serverNow, userRole, toast, probe, reply>>

RentTrackingSelectPeriod(p, m, y) ==
    /\ view[p].route = "/rent"
    /\ ~view[p].loading
    /\ <<m, y>> # <<view[p].selectedMonth, view[p].selectedYear>>
    /\ view' = [view EXCEPT ![p] =
          [@ EXCEPT !.selectedMonth = m, !.selectedYear = y, !.loading = TRUE]]
    /\ UNCHANGED <<auth_users, user_roles, tenants, rent_payments, maintenance_requests,
                   serverNow, userRole, toast, probe, reply>>

RecordPaymentErrorMessageGeneric(err) == err

\* The message of the error toast: the uniqueness violation has its own.
RecordPaymentErrorMessage(err) ==
    IF err = "23505" THEN "Payment already recorded for this tenant and month"
    ELSE err

RentTrackingInsertUpsert(p, f) ==
    LET err == RentPaymentsInsertError(p, f)
        row == [id |-> NextId(rent_payments), tenant_id |-> f.tenant_id,
                month |-> f.month, year |-> f.year, amount |-> f.amount,
                paid_on |-> f.paid_on, created_at |-> serverNow]
        same == {r \in rent_payments :
                    /\ r.tenant_id = f.tenant_id
                    /\ r.month = f.month /\ r.year = f.year}
    IN  IF err \in {"ok", "23505"}
           THEN [error |-> "ok",
                 rows  |-> (rent_payments \ same) \cup {row},
                 toast |-> [by |-> p, title |-> "Payment recorded",
                            description |->
                              "Rent payment has been recorded successfully."]]
           ELSE [error |-> err,
                 rows  |-> rent_payments,
                 toast |-> [by |-> p, title |-> "Error",
                            description |-> RecordPaymentErrorMessage(err)]]

\* The insert of handleSubmit with the form holding f, and what the handler
\* makes of its result: the ledger after it and the toast raised.
RentTrackingInsert(p, f) ==
    LET err == RentPaymentsInsertError(p, f)
        row == [id |-> NextId(rent_payments), tenant_id |-> f.tenant_id,
                month |-> f.month, year |-> f.year, amount |-> f.amount,
                paid_on |-> f.paid_on, created_at |-> serverNow]
    IN  IF err = "ok"
           THEN [error |-> err,
                 rows  |-> rent_payments \cup {row},
                 toast |-> [by |-> p, title |-> "Payment recorded",
                            description |->
                              "Rent payment has been recorded successfully."]]
           ELSE [error |-> err,
                 rows  |-> rent_payments,
                 toast |-> [by |-> p, title |-> "Error",
                            description |-> RecordPaymentErrorMessage(err)]]

\* The record-payment form is on p's screen and can hold f.
RentTrackingFormHolds(p, f) ==
    /\ view[p].route = "/rent"
    /\ ~view[p].loading
    /\ f.tenant_id \in {""} \cup {t.id : t \in view[p].tenants}

\* handleSubmit with the form holding f
RentTrackingHandleSubmit(p, f) ==
    LET res == RentTrackingInsert(p, f)
    IN  /\ RentTrackingFormHolds(p, f)
        /\ res.error # "ok" \/ Cardinality(rent_payments) < MaxPayments
        /\ rent_payments' = res.rows
        /\ toast' = res.toast
        /\ view' = IF res.error = "ok"
                      THEN [view EXCEPT ![p] =
                              [@ EXCEPT !.loading = TRUE, !.dialogOpen = FALSE,
                                        !.paymentForm =
                                           [EmptyPaymentForm EXCEPT
                                              !.month = view[p].selectedMonth,
                                              !.year = view[p].selectedYear]]]
                      ELSE view
        /\ UNCHANGED <<auth_users, user_roles, tenants, maintenance_requests, serverNow,
                       userRole, probe, reply>>

SubmitDisabledNever(v) == FALSE

\* <Button type="submit" disabled={submitting}>
SubmitDisabled(v) == v.submitting

\* The 'Record Payment' button
RentTrackingOpenDialog(p) ==
    /\ view[p].route = "/rent"
    /\ ~view[p].loading
    /\ ~view[p].dialogOpen
    /\ view' = [view EXCEPT ![p].dialogOpen = TRUE]
    /\ UNCHANGED <<auth_users, user_roles, tenants, rent_payments,
                   maintenance_requests, serverNow, userRole, toast, probe,
                   reply>>

\* The inputs of the dialog
RentTrackingFillForm(p, f) ==
    /\ RentTrackingFormHolds(p, f)
    /\ view[p].dialogOpen
    /\ f # view[p].paymentForm
    /\ view' = [view EXCEPT ![p].paymentForm = f]
    /\ UNCHANGED <<auth_users, user_roles, tenants, rent_payments,
                   maintenance_requests, serverNow, userRole, toast, probe,
                   reply>>

\* The form of the dialog is submitted as it stands.
RentTrackingSubmitForm(p) ==
    /\ view[p].dialogOpen
    /\ RentTrackingHandleSubmit(p, view[p].paymentForm)

\* The forms submitted: a plain payment (a tenant of the list, the first
\* month and year, an everyday amount and date) with at most MaxDeviations
\* fields set to another value.
PlainForm == [tenant_id |-> "T1", month |-> MinMonth, year |-> MinYear,
              amount |-> 5000, paid_on |-> 1]

Deviations(f) ==
    Cardinality({k \in {"month", "year", "amount", "paid_on"} : f[k] # PlainForm[k]})
    + (IF f.tenant_id = "" THEN 1 ELSE 0)

PaymentForms ==
    {f \in [tenant_id : FormTenantIds, month : FormMonths, year : FormYears,
            amount : FormAmounts, paid_on : FormDates] :
        Deviations(f) <= MaxDeviations}

-----------------------------------------------------------------------------
(* SubmitRequest *)

requestSchemaAny(len) == TRUE

requestSchemaExclusive(len) == len > MinDescription /\ len < MaxDescription

\* z.string().min(10).max(1000) on issue_description
requestSchema(len) == len >= MinDescription /\ len <= MaxDescription

\* error.errors[0].message of the ZodError
requestSchemaMessage(len) ==
    IF len < MinDescription
       THEN "Please describe the issue in at least 10 characters"
       ELSE "String must contain at most 1000 character(s)"

\* .from('tenants').select('id, room_no').eq('auth_user_id', user.id).maybeSingle()
FetchTenantInfo(p) ==
    LET own == {t \in VisibleTenants(p) : t.auth_user_id = Some(p)}
    IN  /\ view[p].route = "/submit-request"
        /\ view[p].loading
        /\ view' = [view EXCEPT ![p] =
              [@ EXCEPT !.tenantInfo =
                            IF Cardinality(own) = 1
                               THEN LET t == CHOOSE t \in own : TRUE
                                    IN  Some([id |-> t.id, room_no |-> t.room_no])
                               ELSE Null,
                        !.loading = FALSE]]
        /\ UNCHANGED <<auth_users, user_roles, tenants, rent_payments, maintenance_requests,
                       serverNow, userRole, toast, probe, reply>>

\* The form is rendered once loading is over and tenantInfo is set.
SubmitFormRendered(p) ==
    /\ view[p].route = "/submit-request"
    /\ ~view[p].loading
    /\ view[p].tenantInfo # Null

\* The textarea's onChange
TypeDescription(p, len) ==
    /\ SubmitFormRendered(p)
    /\ len # view[p].issueDescription
    /\ view' = [view EXCEPT ![p].issueDescription = len]
    /\ UNCHANGED <<auth_users, user_roles, tenants, rent_payments, maintenance_requests,
                   serverNow, userRole, toast, probe, reply>>

\* The row handleSubmit inserts into maintenance_requests
SubmitRequestRowResolved(info, len) ==
    [id |-> NextId(maintenance_requests), tenant_id |-> info.id,
     room_no |-> info.room_no, issue_description |-> len,
     status |-> "resolved", created_at |-> serverNow, resolved_at |-> Null]

SubmitRequestRow(info, len) ==
    [id |-> NextId(maintenance_requests), tenant_id |-> info.id,
     room_no |-> info.room_no, issue_description |-> len,
     status |-> "open", created_at |-> serverNow, resolved_at |-> Null]

\* handleSubmit of the SubmitRequest page: the handler itself, whatever the
\* page renders around the form.
SubmitRequestOnSubmit(p) ==
    LET len == view[p].issueDescription
        row == SubmitRequestRow(view[p].tenantInfo[1], len)
    IN  /\ view[p].route = "/submit-request"
        /\ IF view[p].tenantInfo = Null
              THEN /\ toast' = [by |-> p, title |-> "Error", description |->
                                  "Tenant information not found"]
                   /\ UNCHANGED <<maintenance_requests, view>>
           ELSE IF ~requestSchema(len)
              THEN /\ toast' = [by |-> p, title |-> "Validation error",
                                description |-> requestSchemaMessage(len)]
                   /\ UNCHANGED <<maintenance_requests, view>>
           ELSE IF RequestsInsertError(p, row) # "ok"
              THEN /\ toast' = [by |-> p, title |-> "Error", description |->
                                  "Failed to submit request"]
                   /\ UNCHANGED <<maintenance_requests, view>>
           ELSE /\ Cardinality(maintenance_requests) < MaxRequests
                /\ maintenance_requests' = maintenance_requests \cup {row}
                /\ toast' = [by |-> p, title |-> "Request submitted",
                             description |->
                  "Your maintenance request has been submitted successfully."]
                /\ view' = [view EXCEPT ![p].issueDescription = 0]
        /\ UNCHANGED <<auth_users, user_roles, tenants, rent_payments, serverNow,
                       userRole, probe, reply>>

\* The form's onSubmit: the form is there once tenantInfo is set.
SubmitRequestHandleSubmit(p) ==
    /\ SubmitFormRendered(p)
    /\ SubmitRequestOnSubmit(p)

-----------------------------------------------------------------------------
(* MaintenanceManagement *)

FetchRequests(p) ==
    /\ view[p].route = "/maintenance"
    /\ view[p].loading
    /\ view' = [view EXCEPT ![p] =
          [@ EXCEPT !.requests =
                        {r \in VisibleRequests(p) :
                            view[p].filter = "all" \/ r.status = view[p].filter},
                    !.loading = FALSE]]
    /\ UNCHANGED <<auth_users, user_roles, tenants, rent_payments, maintenance_requests,
                   serverNow, userRole, toast, probe, reply>>

\* The Open / Resolved figures above the list
openCount(requests) == Cardinality({r \in requests : r.status = "open"})

resolvedCount(requests) == Cardinality({r \in requests : r.status = "resolved"})

\* The filter selector; the effect on [filter] fetches again.
SetFilter(p, f) ==
    /\ view[p].route = "/maintenance"
    /\ ~view[p].loading
    /\ f # view[p].filter
    /\ view' = [view EXCEPT ![p] = [@ EXCEPT !.filter = f, !.loading = TRUE]]
    /\ UNCHANGED <<auth_users, user_roles, tenants, rent_payments, maintenance_requests,
                   serverNow, userRole, toast, probe, reply>>

ResolveUpdateStatusOnly(r, t) == [r EXCEPT !.status = "resolved"]

\* .update({ status: 'resolved', resolved_at: new Date().toISOString() })
ResolveUpdate(r, t) ==
    [r EXCEPT !.status = "resolved", !.resolved_at = Some(t)]

\* UPDATE maintenance_requests SET ... WHERE id = id, issued by uid: the rows
\* the policies let uid update are changed, the others are left (no error).
RequestsAfterUpdate(uid, id, t) ==
    {IF r.id = id /\ RequestsUpdatePolicy(uid, r) THEN ResolveUpdate(r, t) ELSE r :
        r \in maintenance_requests}

\* handleResolve(id): the 'Mark Resolved' button of a row the list shows open.
\* new Date() is the browser's clock.
HandleResolve(p, id) ==
    /\ view[p].route = "/maintenance"
    /\ ~view[p].loading
    /\ \E r \in view[p].requests : r.id = id /\ r.status = "open"
    /\ \E skew \in Skews :
         maintenance_requests' = RequestsAfterUpdate(p, id, serverNow + skew)
    /\ toast' = [by |-> p, title |-> "Request resolved", description |->
                   "Maintenance request has been marked as resolved."]
    /\ view' = [view EXCEPT ![p].loading = TRUE]
    /\ UNCHANGED <<auth_users, user_roles, tenants, rent_payments, serverNow, userRole,
                   probe, reply>>

\* handleResolve(id) when the update call comes back with an error (the
\* request did not reach the store): the catch raises the toast, no more.
HandleResolveError(p, id) ==
    /\ view[p].route = "/maintenance"
    /\ ~view[p].loading
    /\ \E r \in view[p].requests : r.id = id /\ r.status = "open"
    /\ toast' = [by |-> p, title |-> "Error", description |->
                   "Failed to update request"]
    /\ UNCHANGED <<auth_users, user_roles, tenants, rent_payments,
                   maintenance_requests, serverNow, userRole, view, probe,
                   reply>>

\* Time passes on the server.
Tick ==
    /\ serverNow < MaxTime
    /\ serverNow' = serverNow + 1
    /\ UNCHANGED <<auth_users, user_roles, tenants, rent_payments, maintenance_requests,
                   userRole, view, toast, probe, reply>>

-----------------------------------------------------------------------------
(* MyRentHistory *)

\* fetchPayments: rent_payments, every period, no filter but the policies
MyRentHistoryFetchPayments(p) ==
    /\ view[p].route = "/my-rent"
    /\ view[p].loading
    /\ view' = [view EXCEPT ![p] =
          [@ EXCEPT !.payments =
                        {r \in rent_payments : RentPaymentsSelectPolicy(p, r)},
                    !.loading = FALSE]]
    /\ UNCHANGED <<auth_users, user_roles, tenants, rent_payments,
                   maintenance_requests, serverNow, userRole, toast, probe,
                   reply>>

-----------------------------------------------------------------------------
(* Calls on the store made past the pages: any signed-in principal can send *)
(* the data API an insert, update or delete; the policies and constraints   *)
(* decide it.  An insert the policies refuse is an error (42501); an update *)
(* or delete changes the rows the policies let the caller see and write,    *)
(* and is no error when there are none.                                     *)

\* Rows a direct call carries.
CallTenantRows ==
    {[id |-> "T3", name |-> "C", room_no |-> "103", auth_user_id |-> a] :
        a \in {Null, Some("u1")}}

CallPaymentRows ==
    {[tenant_id |-> t, month |-> MinMonth, year |-> MinYear,
      amount |-> 5000, paid_on |-> 1] : t \in {"T1", "T2"}}

CallRequestRows ==
    {[tenant_id |-> t, room_no |-> "101", issue_description |-> MinDescription,
      status |-> "open"] : t \in {"T1", "T2"}}

AuthUserExists(uid) == \E u \in auth_users : u.id = uid

\* The outcome of INSERT INTO tenants by uid (deposit: the deposit_amount).
TenantsInsertError(uid, row, deposit) ==
    IF ~NumericFits(deposit) THEN "22003"
    ELSE IF ~TenantsWritePolicy(uid, row) THEN "42501"
    ELSE IF \E t \in tenants : t.id = row.id THEN "23505"
    ELSE IF row.auth_user_id # Null /\ ~AuthUserExists(row.auth_user_id[1])
       THEN "23503"
    ELSE "ok"

TenantsAfterInsert(uid, row) ==
    IF TenantsInsertError(uid, row, 0) = "ok" THEN tenants \cup {row} ELSE tenants

\* UPDATE tenants SET room_no = room WHERE id = id
TenantsAfterUpdate(uid, id, room) ==
    {IF t.id = id /\ TenantsWritePolicy(uid, t)
        THEN [t EXCEPT !.room_no = room] ELSE t : t \in tenants}

\* DELETE FROM tenants WHERE id = id
TenantsAfterDelete(uid, id) ==
    {t \in tenants : ~(t.id = id /\ TenantsWritePolicy(uid, t))}

PaymentRow(row) ==
    [id |-> NextId(rent_payments), tenant_id |-> row.tenant_id,
     month |-> row.month, year |-> row.year, amount |-> row.amount,
     paid_on |-> row.paid_on, created_at |-> serverNow]

PaymentsAfterInsert(uid, row) ==
    IF RentPaymentsInsertError(uid, row) = "ok"
       THEN rent_payments \cup {PaymentRow(row)} ELSE rent_payments

\* UPDATE rent_payments SET amount = amount WHERE id = id
PaymentsAfterUpdate(uid, id, amount) ==
    {IF r.id = id /\ RentPaymentsWritePolicy(uid, r)
        THEN [r EXCEPT !.amount = amount] ELSE r : r \in rent_payments}

\* DELETE FROM rent_payments WHERE id = id
PaymentsAfterDelete(uid, id) ==
    {r \in rent_payments : ~(r.id = id /\ RentPaymentsWritePolicy(uid, r))}

RequestRow(row) ==
    [id |-> NextId(maintenance_requests), tenant_id |-> row.tenant_id,
     room_no |-> row.room_no, issue_description |-> row.issue_description,
     status |-> row.status, created_at |-> serverNow, resolved_at |-> Null]

RequestsAfterInsert(uid, row) ==
    IF RequestsInsertError(uid, row) = "ok"
       THEN maintenance_requests \cup {RequestRow(row)} ELSE maintenance_requests

\* DELETE FROM maintenance_requests WHERE id = id
RequestsAfterDelete(uid, id) ==
    {r \in maintenance_requests : ~(r.id = id /\ RequestsDeletePolicy(uid, r))}

\* ON DELETE CASCADE of tenant_id: the rows of tenants that are left.
Cascade(rows, left) == {r \in rows : \E t \in left : t.id = r.tenant_id}

CallInsertTenant(p, row) ==
    /\ tenants' = TenantsAfterInsert(p, row)
    /\ reply' = [by |-> p, command |-> "insert tenants",
                 error |-> TenantsInsertError(p, row, 0),
                 count |-> Cardinality(tenants') - Cardinality(tenants)]
    /\ UNCHANGED <<auth_users, user_roles, rent_payments, maintenance_requests,
                   serverNow, userRole, view, toast, probe>>

CallUpdateTenant(p, id, room) ==
    /\ tenants' = TenantsAfterUpdate(p, id, room)
    /\ reply' = [by |-> p, command |-> "update tenants", error |-> "ok",
                 count |-> Cardinality({t \in tenants :
                              t.id = id /\ TenantsWritePolicy(p, t)})]
    /\ UNCHANGED <<auth_users, user_roles, rent_payments, maintenance_requests,
                   serverNow, userRole, view, toast, probe>>

CallDeleteTenant(p, id) ==
    /\ tenants' = TenantsAfterDelete(p, id)
    /\ rent_payments' = Cascade(rent_payments, tenants')
    /\ maintenance_requests' = Cascade(maintenance_requests, tenants')
    /\ reply' = [by |-> p, command |-> "delete tenants", error |-> "ok",
                 count |-> Cardinality(tenants) - Cardinality(tenants')]
    /\ UNCHANGED <<auth_users, user_roles, serverNow, userRole, view, toast,
                   probe>>

CallInsertPayment(p, row) ==
    /\ rent_payments' = PaymentsAfterInsert(p, row)
    /\ reply' = [by |-> p, command |-> "insert rent_payments",
                 error |-> RentPaymentsInsertError(p, row),
                 count |-> Cardinality(rent_payments') - Cardinality(rent_payments)]
    /\ UNCHANGED <<auth_users, user_roles, tenants, maintenance_requests,
                   serverNow, userRole, view, toast, probe>>

CallUpdatePayment(p, id, amount) ==
    /\ rent_payments' = PaymentsAfterUpdate(p, id, amount)
    /\ reply' = [by |-> p, command |-> "update rent_payments", error |-> "ok",
                 count |-> Cardinality({r \in rent_payments :
                              r.id = id /\ RentPaymentsWritePolicy(p, r)})]
    /\ UNCHANGED <<auth_users, user_roles, tenants, maintenance_requests,
                   serverNow, userRole, view, toast, probe>>

CallDeletePayment(p, id) ==
    /\ rent_payments' = PaymentsAfterDelete(p, id)
    /\ reply' = [by |-> p, command |-> "delete rent_payments", error |-> "ok",
                 count |-> Cardinality(rent_payments) - Cardinality(rent_payments')]
    /\ UNCHANGED <<auth_users, user_roles, tenants, maintenance_requests,
                   serverNow, userRole, view, toast, probe>>

CallInsertRequest(p, row) ==
    /\ Cardinality(maintenance_requests) < MaxRequests
    /\ maintenance_requests' = RequestsAfterInsert(p, row)
    /\ reply' = [by |-> p, command |-> "insert maintenance_requests",
                 error |-> RequestsInsertError(p, row),
                 count |-> Cardinality(maintenance_requests')
                             - Cardinality(maintenance_requests)]
    /\ UNCHANGED <<auth_users, user_roles, tenants, rent_payments, serverNow,
                   userRole, view, toast, probe>>

CallUpdateRequest(p, id) ==
    /\ maintenance_requests' = RequestsAfterUpdate(p, id, serverNow)
    /\ reply' = [by |-> p, command |-> "update maintenance_requests",
                 error |-> "ok",
                 count |-> Cardinality({r \in maintenance_requests :
                              r.id = id /\ RequestsUpdatePolicy(p, r)})]
    /\ UNCHANGED <<auth_users, user_roles, tenants, rent_payments, serverNow,
                   userRole, view, toast, probe>>

CallDeleteRequest(p, id) ==
    /\ maintenance_requests' = RequestsAfterDelete(p, id)
    /\ reply' = [by |-> p, command |-> "delete maintenance_requests",
                 error |-> "ok",
                 count |-> Cardinality(maintenance_requests)
                             - Cardinality(maintenance_requests')]
    /\ UNCHANGED <<auth_users, user_roles, tenants, rent_payments, serverNow,
                   userRole, view, toast, probe>>

-----------------------------------------------------------------------------
(* TenantManagement *)

IsEmail(e) == e # ""

tenantSchemaNoContact(f) ==
    /\ Len(f.name) >= 1 /\ Len(f.name) <= MaxNameLen
    /\ Len(f.room_no) >= 1 /\ Len(f.room_no) <= MaxRoomLen
    /\ f.deposit_amount >= 0
    /\ IsEmail(f.email)
    /\ Len(f.password) >= MinPasswordLen

\* tenantSchema.parse({...formData, deposit_amount: Number(...)}) succeeds
tenantSchema(f) ==
    /\ Len(f.name) >= 1 /\ Len(f.name) <= MaxNameLen
    /\ Len(f.room_no) >= 1 /\ Len(f.room_no) <= MaxRoomLen
    /\ Len(f.contact) >= MinContactLen /\ Len(f.contact) <= MaxContactLen
    /\ f.deposit_amount >= 0
    /\ IsEmail(f.email)
    /\ Len(f.password) >= MinPasswordLen

\* error.errors[0].message of the ZodError (the issues come in field order)
tenantSchemaMessage(f) ==
    IF Len(f.name) < 1 THEN "Name is required"
    ELSE IF Len(f.name) > MaxNameLen
       THEN "String must contain at most 100 character(s)"
    ELSE IF Len(f.room_no) < 1 THEN "Room number is required"
    ELSE IF Len(f.room_no) > MaxRoomLen
       THEN "String must contain at most 10 character(s)"
    ELSE IF Len(f.contact) < MinContactLen THEN "Valid contact number required"
    ELSE IF Len(f.contact) > MaxContactLen
       THEN "String must contain at most 15 character(s)"
    ELSE IF f.deposit_amount < 0 THEN "Deposit must be positive"
    ELSE IF ~IsEmail(f.email) THEN "Valid email required"
    ELSE "Password must be at least 6 characters"

\* The forms typed: a plain new tenant with at most MaxDeviations fields set
\* to a boundary value ("a2" is the address of a registered admin).
PlainTenantForm ==
    [name |-> "C", room_no |-> "103", contact |-> Str(MinContactLen),
     deposit_amount |-> 0, email |-> "e1", password |-> Str(MinPasswordLen)]

TenantFormValues ==
    [name |-> {"", "C", Str(MaxNameLen), Str(MaxNameLen + 1)},
     room_no |-> {"", "103", Str(MaxRoomLen), Str(MaxRoomLen + 1)},
     contact |-> {Str(MinContactLen - 1), Str(MinContactLen),
                  Str(MaxContactLen), Str(MaxContactLen + 1)},
     deposit_amount |-> {-1, 0, NumericLimit},
     email |-> {"", "e1", "a2"},
     password |-> {Str(MinPasswordLen - 1), Str(MinPasswordLen)}]

TenantDeviations(f) ==
    Cardinality({k \in DOMAIN PlainTenantForm : f[k] # PlainTenantForm[k]})

TenantForms ==
    {f \in [name : TenantFormValues.name, room_no : TenantFormValues.room_no,
            contact : TenantFormValues.contact,
            deposit_amount : TenantFormValues.deposit_amount,
            email : TenantFormValues.email,
            password : TenantFormValues.password] :
        TenantDeviations(f) <= MaxDeviations}

\* supabase.auth.signUp({email, password}): a new address gets a new
\* principal, not yet confirmed; the address of a principal that has not
\* confirmed it gets that principal again; a confirmed one is an error.
SignUp(email) ==
    LET reg == {u \in auth_users : u.email = email}
        fresh == "p" \o ToString(Cardinality(auth_users) - Cardinality(Users) + 1)
    IN  IF reg = {}
           THEN [error |-> "", user |-> Some(fresh),
                 users |-> auth_users \cup
                    {[id |-> fresh, email |-> email, confirmed |-> FALSE]}]
        ELSE LET u == CHOOSE u \in reg : TRUE
             IN  IF u.confirmed
                    THEN [error |-> "User already registered", user |-> Null,
                          users |-> auth_users]
                    ELSE [error |-> "", user |-> Some(u.id), users |-> auth_users]

\* The tenant opens the link of the confirmation mail.
ConfirmEmail(u) ==
    /\ u \in auth_users
    /\ ~u.confirmed
    /\ auth_users' = (auth_users \ {u}) \cup {[u EXCEPT !.confirmed = TRUE]}
    /\ UNCHANGED <<user_roles, tenants, rent_payments, maintenance_requests,
                   serverNow, userRole, view, toast, probe, reply>>

FreshTenantId ==
    "T" \o ToString(CHOOSE n \in 1 .. Cardinality(tenants) + 1 :
                       /\ \A t \in tenants : t.id # "T" \o ToString(n)
                       /\ \A m \in 1 .. n - 1 :
                             \E t \in tenants : t.id = "T" \o ToString(m))

ProvisionTenantRowUnlinked(f, user) ==
    [id |-> FreshTenantId, name |-> f.name, room_no |-> f.room_no,
     auth_user_id |-> Null]

\* The row of the tenants insert (the columns the pages read).
ProvisionTenantRow(f, user) ==
    [id |-> FreshTenantId, name |-> f.name, room_no |-> f.room_no,
     auth_user_id |-> user]

ProvisionRoleRowCaller(p, user) == [user_id |-> p, role |-> "tenant"]

\* The row of the user_roles insert
ProvisionRoleRow(p, user) == [user_id |-> user[1], role |-> "tenant"]

\* The outcome of INSERT INTO user_roles by uid
UserRolesInsertError(uid, row) ==
    IF ~UserRolesWritePolicy(uid, row) THEN "42501"
    ELSE IF row \in user_roles THEN "23505"
    ELSE IF ~AuthUserExists(row.user_id) THEN "23503"
    ELSE "ok"

\* supabase.from('user_roles') called past the pages by uid.
CallInsertRole(p, row) ==
    /\ user_roles' = IF UserRolesInsertError(p, row) = "ok"
                        THEN user_roles \cup {row} ELSE user_roles
    /\ reply' = [by |-> p, command |-> "insert user_roles",
                 error |-> UserRolesInsertError(p, row),
                 count |-> Cardinality(user_roles') - Cardinality(user_roles)]
    /\ UNCHANGED <<auth_users, tenants, rent_payments, maintenance_requests,
                   serverNow, userRole, view, toast, probe>>

\* UPDATE user_roles SET role = 'admin' WHERE user_id = id
CallUpdateRole(p, id) ==
    LET hit == {r \in user_roles :
                   /\ r.user_id = id /\ r.role # "admin"
                   /\ UserRolesWritePolicy(p, r)}
        clash == \E r \in hit : [r EXCEPT !.role = "admin"] \in user_roles
    IN  /\ user_roles' = IF clash THEN user_roles
                          ELSE (user_roles \ hit) \cup
                                  {[r EXCEPT !.role = "admin"] : r \in hit}
        /\ reply' = [by |-> p, command |-> "update user_roles",
                     error |-> IF clash THEN "23505" ELSE "ok",
                     count |-> IF clash THEN 0 ELSE Cardinality(hit)]
        /\ UNCHANGED <<auth_users, tenants, rent_payments, maintenance_requests,
                       serverNow, userRole, view, toast, probe>>

\* DELETE FROM user_roles WHERE user_id = row.user_id AND role = row.role
CallDeleteRole(p, row) ==
    /\ user_roles' = {r \in user_roles :
                         ~(r = row /\ UserRolesWritePolicy(p, r))}
    /\ reply' = [by |-> p, command |-> "delete user_roles", error |-> "ok",
                 count |-> Cardinality(user_roles) - Cardinality(user_roles')]
    /\ UNCHANGED <<auth_users, tenants, rent_payments, maintenance_requests,
                   serverNow, userRole, view, toast, probe>>

\* The description of the error toast: error.message when the error is an
\* Error, 'Failed to add tenant' when it is not.
ProvisionErrorMessages(err) == {err, "Failed to add tenant"}

ProvisionFailedViewClosesDialog(v) ==
    [v EXCEPT !.pc = "idle", !.newUser = Null, !.submitting = FALSE,
              !.dialogOpen = FALSE,
              !.tenantForm = EmptyTenantForm]

\* The page after the catch and the finally of handleSubmit: only
\* setSubmitting(false) touches it.
ProvisionFailedView(v) ==
    [v EXCEPT !.pc = "idle", !.newUser = Null, !.submitting = FALSE]

\* fetchTenants (it does not set loading: a later call refreshes the list
\* under the rendered page)
TenantManagementFetchTenants(p) ==
    /\ view[p].route = "/tenants"
    /\ view[p].loading \/ view[p].refetch
    /\ view' = [view EXCEPT ![p] =
          [@ EXCEPT !.tenants = VisibleTenants(p), !.loading = FALSE,
                    !.refetch = FALSE]]
    /\ UNCHANGED <<auth_users, user_roles, tenants, rent_payments,
                   maintenance_requests, serverNow, userRole, toast, probe,
                   reply>>

\* The 'Add Tenant' button
TenantManagementOpenDialog(p) ==
    /\ view[p].route = "/tenants"
    /\ ~view[p].loading
    /\ ~view[p].dialogOpen
    /\ view' = [view EXCEPT ![p].dialogOpen = TRUE]
    /\ UNCHANGED <<auth_users, user_roles, tenants, rent_payments,
                   maintenance_requests, serverNow, userRole, toast, probe,
                   reply>>

\* The inputs of the dialog
TenantManagementFillForm(p, f) ==
    /\ view[p].route = "/tenants"
    /\ ~view[p].loading
    /\ view[p].dialogOpen
    /\ view[p].pc = "idle"
    /\ f # view[p].tenantForm
    /\ view' = [view EXCEPT ![p].tenantForm = f]
    /\ UNCHANGED <<auth_users, user_roles, tenants, rent_payments,
                   maintenance_requests, serverNow, userRole, toast, probe,
                   reply>>

\* handleSubmit up to its first await: setSubmitting(true), the parse, and
\* on a ZodError the toast and setSubmitting(false).
TenantManagementHandleSubmit(p) ==
    LET f == view[p].tenantForm
    IN  /\ view[p].route = "/tenants"
        /\ ~view[p].loading
        /\ view[p].dialogOpen
        /\ ~SubmitDisabled(view[p])
        /\ IF tenantSchema(f)
              THEN /\ view' = [view EXCEPT ![p] =
                         [@ EXCEPT !.pc = "signUp", !.submitting = TRUE]]
                   /\ toast' = toast
              ELSE /\ view' = view
                   /\ toast' = [by |-> p, title |-> "Validation error",
                                description |-> tenantSchemaMessage(f)]
        /\ UNCHANGED <<auth_users, user_roles, tenants, rent_payments,
                       maintenance_requests, serverNow, userRole, probe, reply>>

\* handleSubmit: the answer of auth.signUp
TenantManagementSignUp(p) ==
    LET res == SignUp(view[p].tenantForm.email)
    IN  /\ view[p].route = "/tenants"
        /\ view[p].pc = "signUp"
        /\ res.users = auth_users
              \/ Cardinality(auth_users) - Cardinality(Users) < MaxSignUps
        /\ auth_users' = res.users
        /\ IF res.error = ""
              THEN /\ view' = [view EXCEPT ![p] =
                         [@ EXCEPT !.pc = "insertTenant", !.newUser = res.user]]
                   /\ toast' = toast
              ELSE /\ view' = [view EXCEPT ![p] = ProvisionFailedView(@)]
                   /\ toast' = [by |-> p, title |-> "Error",
                                description |-> res.error]
        /\ UNCHANGED <<user_roles, tenants, rent_payments, maintenance_requests,
                       serverNow, userRole, probe, reply>>

\* handleSubmit: the answer of the tenants insert
TenantManagementInsertTenant(p) ==
    LET f == view[p].tenantForm
        row == ProvisionTenantRow(f, view[p].newUser)
        err == TenantsInsertError(p, row, f.deposit_amount)
    IN  /\ view[p].route = "/tenants"
        /\ view[p].pc = "insertTenant"
        /\ err # "ok" \/ Cardinality(tenants) < MaxTenants
        /\ IF err = "ok"
              THEN /\ tenants' = tenants \cup {row}
                   /\ view' = [view EXCEPT ![p].pc = "insertRole"]
                   /\ toast' = toast
              ELSE /\ tenants' = tenants
                   /\ view' = [view EXCEPT ![p] = ProvisionFailedView(@)]
                   /\ \E d \in ProvisionErrorMessages(err) :
                         toast' = [by |-> p, title |-> "Error", description |-> d]
        /\ UNCHANGED <<auth_users, user_roles, rent_payments,
                       maintenance_requests, serverNow, userRole, probe, reply>>

\* handleSubmit: the answer of the user_roles insert, and the rest
TenantManagementInsertRole(p) ==
    LET row == ProvisionRoleRow(p, view[p].newUser)
        err == UserRolesInsertError(p, row)
    IN  /\ view[p].route = "/tenants"
        /\ view[p].pc = "insertRole"
        /\ IF err = "ok"
              THEN /\ user_roles' = user_roles \cup {row}
                   /\ view' = [view EXCEPT ![p] =
                         [@ EXCEPT !.pc = "idle", !.newUser = Null,
                                   !.submitting = FALSE,
                                   !.dialogOpen = FALSE,
                                   !.tenantForm = EmptyTenantForm,
                                   !.refetch = TRUE]]
                   /\ toast' = [by |-> p, title |-> "Tenant added",
                                description |-> view[p].tenantForm.name]
              ELSE /\ user_roles' = user_roles
                   /\ view' = [view EXCEPT ![p] = ProvisionFailedView(@)]
                   /\ \E d \in ProvisionErrorMessages(err) :
                         toast' = [by |-> p, title |-> "Error", description |-> d]
        /\ UNCHANGED <<auth_users, tenants, rent_payments, maintenance_requests,
                       serverNow, userRole, probe, reply>>

-----------------------------------------------------------------------------
(* The fetches and the record-payment submit, await by await *)

\* A call of fetchData / fetchAdminData under way: the selection it was
\* started with (the state its closure holds) and the query it waits for.
Fetch(kind, m, y) == [kind |-> kind, step |-> "tenants", month |-> m, year |-> y]

StartFetch(v, kind, m, y) ==
    [v EXCEPT !.loading = TRUE, !.pending = @ \cup {Fetch(kind, m, y)}]

\* The month / year selectors of RentTracking and of the admin Dashboard:
\* the effect calls the fetch of the new render.
SelectPeriodAsync(p, kind, m, y) ==
    /\ view[p].route = (IF kind = "rent" THEN "/rent" ELSE "/")
    /\ ~view[p].loading
    /\ ~view[p].dialogOpen
    /\ <<m, y>> # <<view[p].selectedMonth, view[p].selectedYear>>
    /\ view' = [view EXCEPT ![p] =
          StartFetch([@ EXCEPT !.selectedMonth = m, !.selectedYear = y],
                     kind, m, y)]
    /\ UNCHANGED <<auth_users, user_roles, tenants, rent_payments,
                   maintenance_requests, serverNow, userRole, toast, probe,
                   reply>>

\* fetchData: a query comes back
RentTrackingFetchReturns(p, f) ==
    /\ view[p].route = "/rent"
    /\ f \in view[p].pending
    /\ f.kind = "rent"
    /\ view' = [view EXCEPT ![p] =
          IF f.step = "tenants"
             THEN [@ EXCEPT !.tenants = {TenantBrief(t) : t \in VisibleTenants(p)},
                            !.pending = (@ \ {f}) \cup
                                           {[f EXCEPT !.step = "payments"]}]
             ELSE [@ EXCEPT !.payments = PaymentsOfPeriod(p, f.month, f.year),
                            !.loading = FALSE,
                            !.pending = @ \ {f}]]
    /\ UNCHANGED <<auth_users, user_roles, tenants, rent_payments,
                   maintenance_requests, serverNow, userRole, toast, probe,
                   reply>>

\* fetchAdminData: a query comes back
DashboardFetchReturns(p, f) ==
    /\ view[p].route = "/"
    /\ f \in view[p].pending
    /\ f.kind = "admin"
    /\ view' = [view EXCEPT ![p] =
          IF f.step = "tenants"
             THEN [@ EXCEPT !.tenants = VisibleTenants(p),
                            !.pending = (@ \ {f}) \cup
                                           {[f EXCEPT !.step = "payments"]}]
          ELSE IF f.step = "payments"
             THEN [@ EXCEPT !.paidTenants = paidTenantIds(
                                PaymentsOfPeriod(p, f.month, f.year)),
                            !.pending = (@ \ {f}) \cup
                                           {[f EXCEPT !.step = "requests"]}]
          ELSE [@ EXCEPT !.openRequests = MostRecent(
                                {r \in VisibleRequests(p) : r.status = "open"},
                                OpenRequestsLimit),
                         !.loading = FALSE,
                         !.pending = @ \ {f}]]
    /\ UNCHANGED <<auth_users, user_roles, tenants, rent_payments,
                   maintenance_requests, serverNow, userRole, toast, probe,
                   reply>>

\* A page mounts and its effects run in the order they are declared: the
\* gate calls navigate('/') for a known role that is not the page's, the
\* fetch effect calls the page's fetch whatever the role.  The call of a page
\* the gate has left stays under way.
MountPage(p, route) ==
    /\ \E d \in MountPeriods(route), h \in MountPeriods("/") :
          view' = [view EXCEPT ![p] =
             IF GateRedirects(userRole[p], route)
                THEN [InitialView("/", h[1], h[2]) EXCEPT !.pending =
                         view[p].pending \cup {Fetch(route, d[1], d[2])}]
                ELSE [InitialView(route, d[1], d[2]) EXCEPT !.pending =
                         view[p].pending]]
    /\ UNCHANGED <<auth_users, user_roles, tenants, rent_payments,
                   maintenance_requests, serverNow, userRole, toast, probe,
                   reply>>

\* The query of a page that is no longer mounted comes back: its rows are
\* set on a component that is gone.
FetchDropped(p, f) ==
    /\ f \in view[p].pending
    /\ f.kind \in AdminRoutes \cup TenantRoutes
    /\ view' = [view EXCEPT ![p].pending = @ \ {f}]
    /\ UNCHANGED <<auth_users, user_roles, tenants, rent_payments,
                   maintenance_requests, serverNow, userRole, toast, probe,
                   reply>>

\* The dialog is dismissed (Escape, the close button, a click outside).
RentTrackingCloseDialog(p) ==
    /\ view[p].route = "/rent"
    /\ view[p].dialogOpen
    /\ view' = [view EXCEPT ![p].dialogOpen = FALSE]
    /\ UNCHANGED <<auth_users, user_roles, tenants, rent_payments,
                   maintenance_requests, serverNow, userRole, toast, probe,
                   reply>>

\* handleSubmit up to its await: setSubmitting(true) and the insert is sent.
\* The handler is the one of this render: it holds this render's selection.
RentTrackingSubmitAsync(p) ==
    /\ RentTrackingFormHolds(p, view[p].paymentForm)
    /\ view[p].dialogOpen
    /\ ~SubmitDisabled(view[p])
    /\ view' = [view EXCEPT ![p] =
          [@ EXCEPT !.pc = "insert", !.submitting = TRUE,
                    !.captured = <<view[p].selectedMonth,
                                    view[p].selectedYear>>]]
    /\ UNCHANGED <<auth_users, user_roles, tenants, rent_payments,
                   maintenance_requests, serverNow, userRole, toast, probe,
                   reply>>

\* handleSubmit after its await: the toast, and on success the dialog is
\* closed, the form reset and fetchData() called, all three with what the
\* handler holds; finally setSubmitting(false).
RentTrackingInsertReturns(p) ==
    LET v == view[p]
        res == RentTrackingInsert(p, v.paymentForm)
    IN  /\ v.route = "/rent"
        /\ v.pc = "insert"
        /\ res.error # "ok" \/ Cardinality(rent_payments) < MaxPayments
        /\ rent_payments' = res.rows
        /\ toast' = res.toast
        /\ view' = [view EXCEPT ![p] =
              IF res.error = "ok"
                 THEN StartFetch(
                        [v EXCEPT !.pc = "idle", !.submitting = FALSE,
                                  !.captured = <<>>,
                                  !.dialogOpen = FALSE,
                                  !.paymentForm =
                                     [EmptyPaymentForm EXCEPT
                                        !.month = v.captured[1],
                                        !.year = v.captured[2]]],
                        "rent", v.captured[1], v.captured[2])
                 ELSE [v EXCEPT !.pc = "idle", !.submitting = FALSE,
                                  !.captured = <<>>]]
        /\ UNCHANGED <<auth_users, user_roles, tenants, maintenance_requests,
                       serverNow, userRole, probe, reply>>

-----------------------------------------------------------------------------
(* The validator on its own *)

Validate ==
    /\ probe.verdict = "pending"
    /\ probe' = [probe EXCEPT !.verdict =
                    IF requestSchema(probe.len) THEN "accepted" ELSE "rejected"]
    /\ UNCHANGED <<auth_users, user_roles, tenants, rent_payments, maintenance_requests,
                   serverNow, userRole, view, toast, reply>>

-----------------------------------------------------------------------------
(* Specifications *)

TenantA == [id |-> "T1", name |-> "A", room_no |-> "101",
            auth_user_id |-> Some("u1")]

TenantB == [id |-> "T2", name |-> "B", room_no |-> "102",
            auth_user_id |-> Some("u2")]

\* The accounts, and the two ledgers empty; the tenants the admin has added
\* by then are chosen by each specification.
InitStore ==
    /\ auth_users = {[id |-> u, email |-> u, confirmed |-> TRUE] : u \in Users}
    /\ user_roles = {[user_id |-> "a1", role |-> "admin"],
                     [user_id |-> "a2", role |-> "admin"],
                     [user_id |-> "u1", role |-> "tenant"],
                     [user_id |-> "u2", role |-> "tenant"]}
    /\ rent_payments = {}
    /\ maintenance_requests = {}
    /\ serverNow = 0
    /\ userRole = [p \in Users |-> Null]
    /\ toast = NoToast
    /\ reply = NoReply

LedgerSessions == {"a1", "a2", "u1"}
MaintSessions == {"a1", "a2", "u1"}
MaintVisitors == {"u1"}
AggregateSessions == {"a1"}

IdleView == InitialView("/", MinMonth, MinYear)

\* The rent ledger: sessions that have the RentTracking page open for one
\* period and record payments.  (The handlers do not read the role; it is
\* still being resolved here, so no gate has sent anyone away.)
InitLedger ==
    /\ InitStore
    /\ tenants = {TenantA, TenantB}
    /\ view = [p \in Users |->
                 IF p \in LedgerSessions
                    THEN InitialView("/rent", MinMonth, MinYear) ELSE IdleView]
    /\ probe = [len |-> 0, verdict |-> "pending"]

NextLedger ==
    \/ \E p \in LedgerSessions : RentTrackingFetchData(p)
    \/ \E p \in LedgerSessions, f \in PaymentForms : RentTrackingHandleSubmit(p, f)

SpecLedger == InitLedger /\ [][NextLedger]_vars

\* The aggregates: one admin session that moves between the Dashboard and
\* RentTracking, changes the period and records payments.
InitAggregate ==
    /\ InitStore
    /\ tenants \in {{}, {TenantA}, {TenantA, TenantB}}
    /\ view = [p \in Users |-> IdleView]
    /\ probe = [len |-> 0, verdict |-> "pending"]

NextAggregate ==
    \/ \E p \in AggregateSessions : RoleResolved(p)
    \/ \E p \in AggregateSessions, r \in {"/", "/rent"} : Navigate(p, r)
    \/ \E p \in AggregateSessions : DashboardFetchAdminData(p)
    \/ \E p \in AggregateSessions : DashboardFetchTenantData(p)
    \/ \E p \in AggregateSessions, m \in SelMonths, y \in SelYears :
          DashboardSelectPeriod(p, m, y)
    \/ \E p \in AggregateSessions : RentTrackingFetchData(p)
    \/ \E p \in AggregateSessions, m \in SelMonths, y \in SelYears :
          RentTrackingSelectPeriod(p, m, y)
    \/ \E p \in AggregateSessions, f \in PaymentForms :
          RentTrackingHandleSubmit(p, f)

SpecAggregate == InitAggregate /\ [][NextAggregate]_vars

\* The maintenance tracker: the admin sessions keep MaintenanceManagement
\* open, the tenant's session moves between SubmitRequest and
\* MaintenanceManagement (its role still being resolved, the gate lets it).
\* The status filter of MaintenanceManagement stays at 'all'.
InitMaint ==
    /\ InitStore
    /\ tenants = {TenantA, TenantB}
    /\ view = [p \in Users |->
                 IF p \in MaintSessions \ MaintVisitors
                    THEN InitialView("/maintenance", MinMonth, MinYear)
                    ELSE IdleView]
    /\ probe = [len |-> 0, verdict |-> "pending"]

NextMaint ==
    \/ \E p \in MaintVisitors, r \in {"/maintenance", "/submit-request"} :
          Navigate(p, r)
    \/ \E p \in MaintSessions : FetchTenantInfo(p)
    \/ \E p \in MaintSessions, len \in FormLengths : TypeDescription(p, len)
    \/ \E p \in MaintSessions : SubmitRequestHandleSubmit(p)
    \/ \E p \in MaintSessions : FetchRequests(p)
    \/ \E p \in MaintSessions, id \in 1 .. MaxRequests : HandleResolve(p, id)
    \/ Tick

SpecMaint == InitMaint /\ [][NextMaint]_vars

\* What the tenants read: an admin fills the two ledgers through the data
\* API while the tenants' sessions open the Dashboard and MyRentHistory.
ReadSessions == {"u1", "u2"}

InitReads ==
    /\ InitStore
    /\ tenants = {TenantA, TenantB}
    /\ view = [p \in Users |-> IdleView]
    /\ probe = [len |-> 0, verdict |-> "pending"]

NextReads ==
    \/ \E row \in CallPaymentRows : CallInsertPayment("a1", row)
    \/ \E row \in CallRequestRows : CallInsertRequest("a1", row)
    \/ \E id \in 1 .. MaxRequests : CallUpdateRequest("a1", id)
    \/ \E p \in ReadSessions : RoleResolved(p)
    \/ \E p \in ReadSessions, r \in {"/", "/my-rent"} : Navigate(p, r)
    \/ \E p \in ReadSessions : DashboardFetchTenantData(p)
    \/ \E p \in ReadSessions : MyRentHistoryFetchPayments(p)

SpecReads == InitReads /\ [][NextReads]_vars

\* The store under direct calls: an admin and a tenant each send the data
\* API inserts, updates and deletes.
StoreCallers == {"a1", "u1"}

InitStoreCalls ==
    /\ InitStore
    /\ tenants = {TenantA, TenantB}
    /\ view = [p \in Users |-> IdleView]
    /\ probe = [len |-> 0, verdict |-> "pending"]

NextStoreCalls ==
    \/ \E p \in StoreCallers, row \in CallTenantRows : CallInsertTenant(p, row)
    \/ \E p \in StoreCallers : CallUpdateTenant(p, "T1", "109")
    \/ \E p \in StoreCallers, id \in {"T2", "T3"} : CallDeleteTenant(p, id)
    \/ \E p \in StoreCallers, row \in CallPaymentRows : CallInsertPayment(p, row)
    \/ \E p \in StoreCallers, id \in 1 .. MaxPayments :
          CallUpdatePayment(p, id, 0)
    \/ \E p \in StoreCallers, id \in 1 .. MaxPayments : CallDeletePayment(p, id)
    \/ \E p \in StoreCallers, row \in CallRequestRows : CallInsertRequest(p, row)
    \/ \E p \in StoreCallers, id \in 1 .. MaxRequests : CallUpdateRequest(p, id)
    \/ \E p \in StoreCallers, id \in 1 .. MaxRequests : CallDeleteRequest(p, id)

SpecStoreCalls == InitStoreCalls /\ [][NextStoreCalls]_vars

\* Provisioning: the admin a1 and the tenant u1 (whose role is still being
\* resolved, so the gate lets it) have TenantManagement open; tenants that
\* were signed up confirm their address or do not.
ProvisionSessions == {"a1", "u1"}

InitProvision ==
    /\ InitStore
    /\ tenants = {TenantA}
    /\ view = [p \in Users |->
                 IF p \in ProvisionSessions
                    THEN InitialView("/tenants", MinMonth, MinYear)
                    ELSE IdleView]
    /\ probe = [len |-> 0, verdict |-> "pending"]

NextProvision ==
    \/ \E p \in ProvisionSessions : TenantManagementFetchTenants(p)
    \/ \E p \in ProvisionSessions : TenantManagementOpenDialog(p)
    \/ \E f \in TenantForms : TenantManagementFillForm("a1", f)
    \/ TenantManagementFillForm("u1", PlainTenantForm)
    \/ \E p \in ProvisionSessions : TenantManagementHandleSubmit(p)
    \/ \E p \in ProvisionSessions : TenantManagementSignUp(p)
    \/ \E p \in ProvisionSessions : TenantManagementInsertTenant(p)
    \/ \E p \in ProvisionSessions : TenantManagementInsertRole(p)
    \/ \E u \in auth_users : ConfirmEmail(u)

SpecProvision == InitProvision /\ [][NextProvision]_vars

\* Gates: an admin, a tenant and a user without a role record sign in and
\* open pages while the resolver is about to answer.
GateSessions == {"a1", "u1", "n1"}

DataPages == {"/"} \cup AdminRoutes \cup TenantRoutes

InitGate ==
    /\ InitStore
    /\ tenants = {TenantA, TenantB}
    /\ view = [p \in Users |-> IdleView]
    /\ probe = [len |-> 0, verdict |-> "pending"]

NextGate ==
    \/ \E p \in GateSessions : RoleResolved(p)
    \/ \E p \in GateSessions : RoleRecordMissing(p)
    \/ \E p \in GateSessions, r \in DataPages : Navigate(p, r)
    \/ \E p \in GateSessions : DashboardFetchAdminData(p)
    \/ \E p \in GateSessions : DashboardFetchTenantData(p)
    \/ \E p \in GateSessions : RentTrackingFetchData(p)
    \/ \E p \in GateSessions : FetchRequests(p)
    \/ \E p \in GateSessions : TenantManagementFetchTenants(p)
    \/ \E p \in GateSessions : MyRentHistoryFetchPayments(p)
    \/ \E p \in GateSessions : FetchTenantInfo(p)

SpecGate == InitGate /\ [][NextGate]_vars

\* The pages' effects at mount: the admin a1 and the tenant u1 open every
\* route, before and after their roles are known, and the fetches return.
MountSessions == {"a1", "u1"}

InitMount ==
    /\ InitStore
    /\ tenants = {TenantA, TenantB}
    /\ view = [p \in Users |-> IdleView]
    /\ probe = [len |-> 0, verdict |-> "pending"]

NextMount ==
    \/ \E p \in MountSessions : RoleResolved(p)
    \/ \E p \in MountSessions, r \in DataPages : MountPage(p, r)
    \/ \E p \in MountSessions : \E f \in view[p].pending : FetchDropped(p, f)
    \/ \E p \in MountSessions : DashboardFetchAdminData(p)
    \/ \E p \in MountSessions : DashboardFetchTenantData(p)
    \/ \E p \in MountSessions : RentTrackingFetchData(p)
    \/ \E p \in MountSessions : FetchRequests(p)
    \/ \E p \in MountSessions : TenantManagementFetchTenants(p)
    \/ \E p \in MountSessions : MyRentHistoryFetchPayments(p)
    \/ \E p \in MountSessions : FetchTenantInfo(p)

SpecMount == InitMount /\ [][NextMount]_vars

\* Writes that fail: the admin a1 records payments, resolves requests and
\* provisions tenants, the tenant u1 submits requests, and another admin
\* deletes a tenant behind their pages.
WriteSessions == {"a1", "u1"}

WritePaymentForms == {PlainForm, [PlainForm EXCEPT !.amount = NumericLimit]}

WriteTenantForms ==
    {PlainTenantForm, [PlainTenantForm EXCEPT !.deposit_amount = NumericLimit],
     [PlainTenantForm EXCEPT !.email = "a2"]}

InitWrites ==
    /\ InitStore
    /\ tenants = {TenantA}
    /\ view = [p \in Users |->
                 IF p = "u1"
                    THEN InitialView("/submit-request", MinMonth, MinYear)
                    ELSE IdleView]
    /\ probe = [len |-> 0, verdict |-> "pending"]

NextWrites ==
    \/ \E r \in AdminRoutes : view["a1"].pc = "idle" /\ Navigate("a1", r)
    \/ RentTrackingFetchData("a1")
    \/ RentTrackingOpenDialog("a1")
    \/ \E f \in WritePaymentForms : RentTrackingFillForm("a1", f)
    \/ RentTrackingSubmitForm("a1")
    \/ FetchRequests("a1")
    \/ \E id \in 1 .. MaxRequests : HandleResolve("a1", id)
    \/ \E id \in 1 .. MaxRequests : HandleResolveError("a1", id)
    \/ TenantManagementFetchTenants("a1")
    \/ TenantManagementOpenDialog("a1")
    \/ \E f \in WriteTenantForms : TenantManagementFillForm("a1", f)
    \/ TenantManagementHandleSubmit("a1")
    \/ TenantManagementSignUp("a1")
    \/ TenantManagementInsertTenant("a1")
    \/ TenantManagementInsertRole("a1")
    \/ FetchTenantInfo("u1")
    \/ TypeDescription("u1", MinDescription)
    \/ SubmitRequestHandleSubmit("u1")
    \/ CallDeleteTenant("a2", "T1")

SpecWrites == InitWrites /\ [][NextWrites]_vars

\* Counts: the tenant u1 submits requests; the admin a1 looks at the
\* Dashboard and at MaintenanceManagement under each filter, and resolves.
InitCounts ==
    /\ InitStore
    /\ tenants = {TenantA}
    /\ view = [p \in Users |->
                 IF p = "u1"
                    THEN InitialView("/submit-request", MinMonth, MinYear)
                    ELSE IdleView]
    /\ probe = [len |-> 0, verdict |-> "pending"]

NextCounts ==
    \/ RoleResolved("a1")
    \/ \E r \in {"/", "/maintenance"} : Navigate("a1", r)
    \/ DashboardFetchAdminData("a1")
    \/ DashboardFetchTenantData("a1")
    \/ FetchRequests("a1")
    \/ \E f \in Filters : SetFilter("a1", f)
    \/ \E id \in 1 .. MaxRequests : HandleResolve("a1", id)
    \/ FetchTenantInfo("u1")
    \/ TypeDescription("u1", MinDescription)
    \/ SubmitRequestHandleSubmit("u1")

SpecCounts == InitCounts /\ [][NextCounts]_vars

\* The submit handler on its own: the tenant u1 and n1, who has no tenants
\* row, have SubmitRequest mounted and the handler is run in every state of
\* the page (a submit dispatched at it, whatever is rendered); the admin a2
\* deletes u1's tenants row behind the page.
SubmitSessions == {"u1", "n1"}

InitSubmit ==
    /\ InitStore
    /\ tenants = {TenantA, TenantB}
    /\ view = [p \in Users |->
                 IF p \in SubmitSessions
                    THEN InitialView("/submit-request", MinMonth, MinYear)
                    ELSE IdleView]
    /\ probe = [len |-> 0, verdict |-> "pending"]

NextSubmit ==
    \/ \E p \in SubmitSessions : FetchTenantInfo(p)
    \/ \E p \in SubmitSessions, len \in FormLengths : TypeDescription(p, len)
    \/ \E p \in SubmitSessions : SubmitRequestOnSubmit(p)
    \/ CallDeleteTenant("a2", "T1")

SpecSubmit == InitSubmit /\ [][NextSubmit]_vars

\* Races: the admin a1 works on RentTracking while its calls are under way,
\* the admin a2 watches the Dashboard; a tenant is added through the data API.
RacePaymentForms == {PlainForm, [PlainForm EXCEPT !.tenant_id = "T2"]}

InitRace ==
    /\ auth_users = {[id |-> u, email |-> u, confirmed |-> TRUE] : u \in Users}
    /\ user_roles = {[user_id |-> "a1", role |-> "admin"],
                     [user_id |-> "a2", role |-> "admin"],
                     [user_id |-> "u1", role |-> "tenant"],
                     [user_id |-> "u2", role |-> "tenant"]}
    /\ tenants = {TenantA}
    /\ rent_payments = {}
    /\ maintenance_requests = {}
    /\ serverNow = 0
    /\ userRole = [p \in Users |->
                     IF p \in {"a1", "a2"} THEN Some("admin") ELSE Null]
    /\ toast = NoToast
    /\ reply = NoReply
    /\ view = [p \in Users |->
                 IF p = "a1"
                    THEN StartFetch(InitialView("/rent", MinMonth, MinYear),
                                    "rent", MinMonth, MinYear)
                 ELSE IF p = "a2"
                    THEN StartFetch(IdleView, "admin", MinMonth, MinYear)
                 ELSE IdleView]
    /\ probe = [len |-> 0, verdict |-> "pending"]

NextRace ==
    \/ \E f \in view["a1"].pending : RentTrackingFetchReturns("a1", f)
    \/ \E m \in SelMonths, y \in SelYears : SelectPeriodAsync("a1", "rent", m, y)
    \/ RentTrackingOpenDialog("a1")
    \/ \E f \in RacePaymentForms :
          view["a1"].pc = "idle" /\ RentTrackingFillForm("a1", f)
    \/ RentTrackingCloseDialog("a1")
    \/ RentTrackingSubmitAsync("a1")
    \/ RentTrackingInsertReturns("a1")
    \/ \E f \in view["a2"].pending : DashboardFetchReturns("a2", f)
    \/ \E m \in SelMonths, y \in SelYears : SelectPeriodAsync("a2", "admin", m, y)
    \/ CallInsertTenant("a1", TenantB)

SpecRace == InitRace /\ [][NextRace]_vars

\* Calls on user_roles: the tenant u1 and the role-less n1 try to give
\* themselves a role or to take one away; the admin a1 grants and revokes.
RoleCallers == {"a1", "u1", "n1"}

CallRoleRows ==
    {[user_id |-> "u1", role |-> "admin"], [user_id |-> "n1", role |-> "admin"],
     [user_id |-> "n1", role |-> "tenant"], [user_id |-> "a2", role |-> "admin"]}

InitRoleCalls ==
    /\ InitStore
    /\ tenants = {TenantA, TenantB}
    /\ view = [p \in Users |-> IdleView]
    /\ probe = [len |-> 0, verdict |-> "pending"]

NextRoleCalls ==
    \/ \E p \in RoleCallers, row \in CallRoleRows : CallInsertRole(p, row)
    \/ \E p \in RoleCallers, id \in {"u1", "n1"} : CallUpdateRole(p, id)
    \/ \E p \in RoleCallers, row \in CallRoleRows : CallDeleteRole(p, row)

SpecRoleCalls == InitRoleCalls /\ [][NextRoleCalls]_vars

\* The validator applied to every length up to MaxProbeLen.
InitValidate ==
    /\ InitStore
    /\ tenants = {TenantA, TenantB}
    /\ view = [p \in Users |-> IdleView]
    /\ probe \in [len : 0 .. MaxProbeLen, verdict : {"pending"}]

NextValidate == Validate

SpecValidate == InitValidate /\ [][NextValidate]_vars

-----------------------------------------------------------------------------
(* App: the routes and ProtectedRoute *)

\* What a route renders in place of a page
Placeholder == "Loading..."
ToAuth == "<Navigate to=/auth>"

ProtectedRouteNoUserCheck(loading, user, children) ==
    IF loading THEN Placeholder ELSE children

\* ProtectedRoute: the placeholder while the session is being loaded, the
\* redirect without a user, the page otherwise.
ProtectedRoute(loading, user, children) ==
    IF loading THEN Placeholder
    ELSE IF user = Null THEN ToAuth
    ELSE children

\* <Routes>: the element of a path (a page is named by its path)
AppRoutes(loading, user, path) ==
    IF path = "/auth" THEN "Auth"
    ELSE IF path \in DataPages THEN ProtectedRoute(loading, user, path)
    ELSE "NotFound"

\* The router renders a location: <Navigate replace> moves it to /auth.
Render(loading, user, path) ==
    LET element == AppRoutes(loading, user, path)
    IN  IF element = ToAuth
           THEN [loading |-> loading, user |-> user, path |-> "/auth",
                 rendered |-> AppRoutes(loading, user, "/auth")]
           ELSE [loading |-> loading, user |-> user, path |-> path,
                 rendered |-> element]

\* Two browsers, the addresses they are pointed at and who signs in.
Browsers == {"b1", "b2"}
Paths == DataPages \cup {"/auth", "/nowhere"}
SignIns == {"a1", "u1"}

RouterUnchanged ==
    UNCHANGED <<auth_users, user_roles, tenants, rent_payments,
                maintenance_requests, serverNow, userRole, view, toast, reply>>

\* A link is followed or an address is entered.
OpenPath(b, path) ==
    /\ path # probe[b].path
    /\ probe' = [probe EXCEPT ![b] = Render(@.loading, @.user, path)]
    /\ RouterUnchanged

\* The stored session has been looked up: loading ends, with or without a
\* user.
AuthLoaded(b, user) ==
    /\ probe[b].loading
    /\ probe' = [probe EXCEPT ![b] = Render(FALSE, user, @.path)]
    /\ RouterUnchanged

\* The Auth page signs a user in.
SignedIn(b, u) ==
    /\ ~probe[b].loading
    /\ probe[b].user = Null
    /\ probe[b].path = "/auth"
    /\ probe' = [probe EXCEPT ![b] = Render(FALSE, Some(u), @.path)]
    /\ RouterUnchanged

\* handleSignOut of the layout: await signOut(); navigate('/auth')
HandleSignOut(b) ==
    /\ probe[b].rendered \in DataPages
    /\ probe' = [probe EXCEPT ![b] = Render(FALSE, Null, "/auth")]
    /\ RouterUnchanged

\* The session ends behind the page (expiry, sign-out in another tab).
SessionEnded(b) ==
    /\ ~probe[b].loading
    /\ probe[b].user # Null
    /\ probe' = [probe EXCEPT ![b] = Render(FALSE, Null, @.path)]
    /\ RouterUnchanged

InitRoutes ==
    /\ InitStore
    /\ tenants = {TenantA, TenantB}
    /\ view = [p \in Users |-> IdleView]
    /\ probe \in [Browsers -> {Render(TRUE, Null, path) : path \in Paths}]

NextRoutes ==
    \/ \E b \in Browsers, path \in Paths : OpenPath(b, path)
    \/ \E b \in Browsers, u \in SignIns : AuthLoaded(b, Some(u))
    \/ \E b \in Browsers : AuthLoaded(b, Null)
    \/ \E b \in Browsers, u \in SignIns : SignedIn(b, u)
    \/ \E b \in Browsers : HandleSignOut(b)
    \/ \E b \in Browsers : SessionEnded(b)

SpecRoutes == InitRoutes /\ [][NextRoutes]_vars

-----------------------------------------------------------------------------
(* Properties of the rent ledger (SpecLedger) *)

Admins == {p \in Users : has_role(p, "admin")}

DuplicateMessage == "Payment already recorded for this tenant and month"

SameTuple(r, f) ==
    r.tenant_id = f.tenant_id /\ r.month = f.month /\ r.year = f.year

\* C1: there is never more than one rent_payments row for a (tenant_id,
\* month, year), whatever the admin sessions submit and in whatever order,
\* and no step changes or removes a row the ledger holds: an insert for a
\* tuple that is there fails and leaves its amount and paid_on as they were.
C1_OnePaymentPerTenantPeriod ==
    [][ /\ \A r, q \in rent_payments' : SameTuple(r, q) => r = q
        /\ \A r \in rent_payments : r \in rent_payments' ]_vars

\* Both admin sessions have recorded a payment, and the last submission, for
\* a tuple already in the ledger, was turned down.
C1_Witness ==
    /\ Cardinality(rent_payments) = 2
    /\ toast.by \in Admins
    /\ toast.title = "Error"
    /\ toast.description = DuplicateMessage

\* A submission the store has no reason to refuse but a duplicate tuple.
WellFormed(p, f) ==
    /\ p \in Admins
    /\ f.tenant_id \in {"T1", "T2"}
    /\ f.month \in 1 .. 12
    /\ f.year \in 2000 .. 2100
    /\ f.amount > -100000000 /\ f.amount < 100000000

\* C2: in every reachable state, a well-formed recordPayment that an admin
\* session can submit there succeeds if its tuple is not yet in the ledger
\* (exactly its row is added, 'Payment recorded' is raised), and if the
\* tuple is there it fails with the duplicate-payment message, not with the
\* store's generic error text, and adds nothing.
C2_RecordOnceThenDuplicate ==
    \A p \in LedgerSessions, f \in PaymentForms :
        (WellFormed(p, f) /\ RentTrackingFormHolds(p, f)) =>
           LET res == RentTrackingInsert(p, f)
           IN  IF \E r \in rent_payments : SameTuple(r, f)
                  THEN /\ res.rows = rent_payments
                       /\ res.toast = [by |-> p, title |-> "Error",
                                       description |-> DuplicateMessage]
                  ELSE /\ \E r \in res.rows \ rent_payments :
                            /\ SameTuple(r, f)
                            /\ r.amount = f.amount /\ r.paid_on = f.paid_on
                       /\ Cardinality(res.rows) = Cardinality(rent_payments) + 1
                       /\ res.toast.by = p
                       /\ res.toast.title = "Payment recorded"

\* Session a2 was told that the payment it submitted is already recorded,
\* and the ledger holds the one row of that tuple.
C2_Witness ==
    /\ toast = [by |-> "a2", title |-> "Error", description |-> DuplicateMessage]
    /\ Cardinality(rent_payments) = 1

\* C3: every stored rent payment has a non-negative amount, a month in
\* 1..12 and a year in 2000..2100 (a submission outside them is rejected).
C3_StoredPaymentsWithinBounds ==
    \A r \in rent_payments :
        /\ r.amount >= 0
        /\ r.month >= 1 /\ r.month <= 12
        /\ r.year >= 2000 /\ r.year <= 2100

-----------------------------------------------------------------------------
(* Properties of the maintenance tracker (SpecMaint) *)

\* C4: a request that is resolved stays resolved at every later step, and a
\* resolved request has a resolved_at that is set and not before created_at.
C4_ResolvedIsFinal ==
    [][ /\ \A r \in maintenance_requests :
              r.status = "resolved" =>
                 \E q \in maintenance_requests' :
                     q.id = r.id /\ q.status = "resolved"
        /\ \A q \in maintenance_requests' :
              q.status = "resolved" =>
                 /\ q.resolved_at # Null
                 /\ q.resolved_at[1] >= q.created_at ]_vars

\* C5: resolved_at is set exactly on the resolved requests.
C5_ResolvedAtIffResolved ==
    \A r \in maintenance_requests :
        (r.resolved_at # Null) <=> (r.status = "resolved")

\* One request is open (resolved_at null) and another has been resolved.
C5_Witness ==
    /\ \E r \in maintenance_requests : r.status = "open" /\ r.resolved_at = Null
    /\ \E r \in maintenance_requests : r.status = "resolved" /\ r.resolved_at # Null

\* C6: a resolved request is not modified again: a resolve issued for it
\* leaves the row, and so its resolved_at, as the first resolve set it.
C6_ResolvedOnce ==
    [][ \A r \in maintenance_requests :
          r.status = "resolved" => r \in maintenance_requests' ]_vars

\* An authenticated principal that has no user_roles row.
NoRolePrincipal == "n1"

\* C7: a resolve issued by a session whose principal is not an admin changes
\* no maintenance_requests row, the page gate notwithstanding; and in every
\* state the store reaches, the update of any request issued by any
\* principal that is not an admin (a tenant, or one with no role) changes
\* no row.
C7_OnlyAdminsResolve ==
    [][ /\ \A p \in MaintSessions, id \in 1 .. MaxRequests :
              (~has_role(p, "admin") /\ toast'.by = p /\ HandleResolve(p, id)) =>
                 maintenance_requests' = maintenance_requests
        /\ \A uid \in Users \cup {NoRolePrincipal} :
              ~has_role(uid, "admin") =>
                 \A r \in maintenance_requests, skew \in Skews :
                     RequestsAfterUpdate(uid, r.id, serverNow + skew)
                        = maintenance_requests ]_vars

\* The tenant's session, on MaintenanceManagement, has pressed 'Mark
\* Resolved' on its own request, and the request is still open.
C7_Witness ==
    /\ toast.by = "u1"
    /\ toast.title = "Request resolved"
    /\ view["u1"].route = "/maintenance"
    /\ maintenance_requests # {}
    /\ \A r \in maintenance_requests : r.status = "open"

\* C10: a submission whose description is shorter than 10 or longer than
\* 1000 characters raises 'Validation error', inserts no request and leaves
\* the typed description in the form.
C10_InvalidDescriptionWritesNothing ==
    [][ \A p \in MaintSessions :
          (/\ view[p].issueDescription < 10 \/ view[p].issueDescription > 1000
           /\ toast'.by = p
           /\ SubmitRequestHandleSubmit(p)) =>
             /\ maintenance_requests' = maintenance_requests
             /\ toast'.by = p /\ toast'.title = "Validation error"
             /\ view'[p].issueDescription = view[p].issueDescription ]_vars

\* The tenant submitted 1001 characters: the error is shown, the text kept.
C10_Witness ==
    /\ toast.by = "u1"
    /\ toast.title = "Validation error"
    /\ view["u1"].route = "/submit-request"
    /\ view["u1"].issueDescription = 1001

-----------------------------------------------------------------------------
(* Properties of the aggregates (SpecAggregate) *)

-----------------------------------------------------------------------------
(* Properties of the validator (SpecValidate) *)

\* C9: the validator accepts a description exactly when its length is
\* between 10 and 1000: 9 is rejected, 10 and 1000 accepted, 1001 rejected.
C9_AcceptsTenToThousand ==
    probe.verdict # "pending" =>
        /\ (probe.verdict = "accepted") <=> (probe.len >= 10 /\ probe.len <= 1000)
        /\ probe.len \in {9, 1001} => probe.verdict = "rejected"
        /\ probe.len \in {10, 1000} => probe.verdict = "accepted"

\* The validator has accepted a description of 1000 characters.
C9_Witness == probe = [len |-> 1000, verdict |-> "accepted"]

-----------------------------------------------------------------------------
(* Properties of the tenants' reads (SpecReads) *)

\* The row belongs to a tenant profile linked to principal p.
OwnRow(p, r) ==
    \E t \in tenants : t.id = r.tenant_id /\ t.auth_user_id = Some(p)

\* C11: when a read of rent_payments (MyRentHistory) or of
\* maintenance_requests (the tenant's Dashboard) issued by a tenant-role
\* principal completes, every row it returned is a stored row of a tenant
\* profile linked to that principal: no row of another tenant, and nothing
\* (no error either) when the principal has none.
C11_TenantReadsOwnRowsOnly ==
    [][ \A p \in ReadSessions :
          (/\ has_role(p, "tenant")
           /\ view[p].loading /\ ~view'[p].loading
           /\ view'[p].route = view[p].route) =>
             /\ view[p].route = "/my-rent" =>
                   view'[p].payments \subseteq
                      {r \in rent_payments : OwnRow(p, r)}
             /\ view[p].route = "/" =>
                   view'[p].openRequests \subseteq
                      {r \in maintenance_requests : OwnRow(p, r)} ]_vars

\* u1's MyRentHistory shows its one payment while the ledger holds u2's
\* too, and u2's Dashboard shows its open request while u1 has one as well.
C11_Witness ==
    /\ view["u1"].route = "/my-rent" /\ ~view["u1"].loading
    /\ Cardinality(view["u1"].payments) = 1
    /\ Cardinality(rent_payments) = 2
    /\ view["u2"].route = "/" /\ ~view["u2"].loading
    /\ Cardinality(view["u2"].openRequests) = 1
    /\ \E r \in maintenance_requests : r.tenant_id = "T1"

-----------------------------------------------------------------------------
(* Properties of the store under direct calls (SpecStoreCalls) *)

TenantOnly(p) == has_role(p, "tenant") /\ ~has_role(p, "admin")

\* C12: an insert into maintenance_requests by a tenant-role principal adds
\* a row only if the row's tenant_id is that of a tenant profile linked to
\* the principal, and is refused (42501, nothing stored) otherwise; an
\* update or a delete of maintenance_requests by a tenant-role principal
\* changes no row.
C12_TenantInsertsOwnRequestsOnly ==
    [][ TenantOnly(reply'.by) =>
          /\ reply'.command = "insert maintenance_requests" =>
                /\ maintenance_requests \subseteq maintenance_requests'
                /\ \A r \in maintenance_requests' \ maintenance_requests :
                       OwnRow(reply'.by, r)
                /\ reply'.error = "ok" \/
                      (reply'.error = "42501"
                          /\ maintenance_requests' = maintenance_requests)
          /\ reply'.command \in {"update maintenance_requests",
                                 "delete maintenance_requests"} =>
                maintenance_requests' = maintenance_requests ]_vars

\* The tenant u1 has stored a request of its own profile T1, and its last
\* insert, for T2, was refused.
C12_Witness ==
    /\ reply = [by |-> "u1", command |-> "insert maintenance_requests",
                error |-> "42501", count |-> 0]
    /\ maintenance_requests # {}
    /\ \A r \in maintenance_requests : r.tenant_id = "T1"

\* C13: in every state the store reaches, no insert, update or delete that
\* a tenant-role principal can send changes tenants or rent_payments, and
\* the tenants rows it reads are those linked to it; an admin reads every
\* row of both tables, and its update or delete of any row of them takes
\* effect.
C13_TenantsAndLedgerAdminOnly ==
    \A p \in StoreCallers :
        /\ TenantOnly(p) =>
              /\ \A row \in CallTenantRows : TenantsAfterInsert(p, row) = tenants
              /\ \A t \in tenants :
                    /\ TenantsAfterUpdate(p, t.id, "109") = tenants
                    /\ TenantsAfterDelete(p, t.id) = tenants
              /\ \A row \in CallPaymentRows :
                    PaymentsAfterInsert(p, row) = rent_payments
              /\ \A r \in rent_payments :
                    /\ PaymentsAfterUpdate(p, r.id, 0) = rent_payments
                    /\ PaymentsAfterDelete(p, r.id) = rent_payments
              /\ \A t \in VisibleTenants(p) : t.auth_user_id = Some(p)
        /\ has_role(p, "admin") =>
              /\ VisibleTenants(p) = tenants
              /\ {r \in rent_payments : RentPaymentsSelectPolicy(p, r)}
                    = rent_payments
              /\ \A t \in tenants :
                    /\ t \notin TenantsAfterDelete(p, t.id)
                    /\ [t EXCEPT !.room_no = "109"]
                          \in TenantsAfterUpdate(p, t.id, "109")
              /\ \A r \in rent_payments :
                    /\ r \notin PaymentsAfterDelete(p, r.id)
                    /\ [r EXCEPT !.amount = 0]
                          \in PaymentsAfterUpdate(p, r.id, 0)

\* The tenant u1 has sent an update of its own tenants row, which changed
\* nothing, while the admin's calls have filled the ledger.
C13_Witness ==
    /\ reply = [by |-> "u1", command |-> "update tenants", error |-> "ok",
                count |-> 0]
    /\ \E t \in tenants : t.id = "T1" /\ t.room_no = "101"
    /\ Cardinality(rent_payments) = 2

\* A step of handleSubmit by p that ends it with a failure of the tenants
\* insert or of the user_roles insert: the principal of step 1 stays behind.
PartialFailureStep(p) ==
    /\ view[p].pc \in {"insertTenant", "insertRole"}
    /\ view'[p].pc = "idle"
    /\ user_roles' = user_roles

\* C14: when the tenants insert or the user_roles insert of provisioning
\* fails after the principal was created, the notification raised is of a
\* kind of its own: its title is not the 'Error' title that a failure of
\* the sign-up and every other failure raise.
C14_PartialFailureDistinct ==
    [][\A p \in ProvisionSessions :
          PartialFailureStep(p) => toast'.title # "Error"]_vars

\* C15: a signed-in principal without a role record is never served a page:
\* whatever route it has open, the dashboard or a role-gated page, that page
\* has not completed a fetch for it and is not rendered.
C15_NoRoleIsUnauthorized ==
    \A p \in GateSessions :
        (\A r \in user_roles : r.user_id # p) =>
            (view[p].route \in DataPages => view[p].loading)

\* A step in which the mounted page of p completes its fetch.
FetchStep(p) ==
    /\ view[p].route \in DataPages
    /\ view'[p].route = view[p].route
    /\ view[p].loading
    /\ ~view'[p].loading

\* C19: on every page the fetch is made only once the role of the signed-in
\* principal is resolved: a page completes a fetch only with userRole set.
C19_FetchAfterRoleResolved ==
    [][\A p \in GateSessions : FetchStep(p) => userRole[p] # Null]_vars

\* C16: at most one tenants row is linked to a principal: no two rows of
\* tenants carry the same non-null auth_user_id.
C16_OneProfilePerPrincipal ==
    \A t1, t2 \in tenants :
        (t1.auth_user_id # Null /\ t1.auth_user_id = t2.auth_user_id) => t1 = t2

\* C17: whatever was provisioned, every principal has at most one role
\* record: no two rows of user_roles carry the same user_id.
C17_OneRolePerPrincipal ==
    \A r1, r2 \in user_roles : r1.user_id = r2.user_id => r1 = r2

\* A provisioned principal holds the tenant role and the attempt to provision
\* it a second time has just been refused by UNIQUE (user_id, role).
C17_Witness ==
    /\ \E r \in user_roles : r.user_id \notin Users /\ r.role = "tenant"
    /\ toast.title = "Error"
    /\ toast.description = "23505"

\* A form with a field outside its constraint: name empty or longer than
\* 100, room_no empty or longer than 10, contact shorter than 10 or longer
\* than 15, deposit below 0.
FieldViolation(f) ==
    \/ f.name = "" \/ Len(f.name) > 100
    \/ f.room_no = "" \/ Len(f.room_no) > 10
    \/ Len(f.contact) < 10 \/ Len(f.contact) > 15
    \/ f.deposit_amount < 0

\* A step in which the idle form of p is submitted: the handler goes on to
\* the sign-up or raises a notification.
SubmitStep(p) ==
    /\ view[p].pc = "idle"
    /\ view'[p].pc = "signUp" \/ (toast' # toast /\ toast'.by = p)

\* C18: provisioning with a field outside its constraint fails with a
\* validation error and creates nothing: the submit raises 'Validation
\* error', makes no call and leaves auth users, tenants and user_roles as
\* they are, and no provisioning under way carries such a form.
C18_InvalidFormCreatesNothing ==
    [][\A p \in ProvisionSessions :
          /\ view[p].pc # "idle" => ~FieldViolation(view[p].tenantForm)
          /\ (SubmitStep(p) /\ FieldViolation(view[p].tenantForm)) =>
                /\ toast'.by = p
                /\ toast'.title = "Validation error"
                /\ view'[p].pc = "idle"
                /\ auth_users' = auth_users
                /\ tenants' = tenants
                /\ user_roles' = user_roles]_vars

\* The admin has submitted a form whose contact has 9 characters: the
\* validation error is shown and nothing was created.
C18_Witness ==
    /\ Len(view["a1"].tenantForm.contact) = 9
    /\ view["a1"].pc = "idle"
    /\ toast = [by |-> "a1", title |-> "Validation error",
                description |-> "Valid contact number required"]
    /\ Cardinality(auth_users) = Cardinality(Users)
    /\ tenants = {TenantA}

\* A step that raises an error notification for p.
ErrorRaised(p) ==
    /\ toast' # toast
    /\ toast'.by = p
    /\ toast'.title = "Error"

\* A step that ends the provisioning of p, under way at sign-up or at one of
\* the inserts, without the role row.
ProvisionFails(p) ==
    /\ view[p].pc # "idle"
    /\ view'[p].pc = "idle"
    /\ user_roles' = user_roles

\* What the page w shows is what v showed: route, lists, dialog, forms.
SameDisplay(v, w) ==
    /\ w.route = v.route
    /\ w.loading = v.loading /\ w.refetch = v.refetch
    /\ w.tenants = v.tenants
    /\ w.payments = v.payments
    /\ w.requests = v.requests
    /\ w.tenantInfo = v.tenantInfo
    /\ w.dialogOpen = v.dialogOpen
    /\ w.paymentForm = v.paymentForm
    /\ w.tenantForm = v.tenantForm
    /\ w.issueDescription = v.issueDescription

StoredCount(status) ==
    Cardinality({r \in maintenance_requests : r.status = status})

\* C21: the request counts shown to the admin are the counts of the stored
\* requests by status: when MaintenanceManagement has fetched, under whatever
\* filter, its Open and Resolved figures are the numbers of stored open and
\* resolved requests, and when the admin Dashboard has fetched, its Open
\* Requests figure is the number of stored open requests.
C21_CountsMatchStore ==
    [][(view["a1"].loading /\ ~view'["a1"].loading
          /\ view'["a1"].route = view["a1"].route) =>
         /\ view["a1"].route = "/maintenance" =>
               /\ openCount(view'["a1"].requests) = StoredCount("open")
               /\ resolvedCount(view'["a1"].requests) = StoredCount("resolved")
         /\ (view["a1"].route = "/" /\ userRole["a1"] = Some("admin")) =>
               Cardinality(view'["a1"].openRequests) = StoredCount("open")]_vars

\* C22: the rent ledger is append-only under the application: in every step
\* of the pages (a step that removes no tenants row; the pages remove none,
\* only a DELETE through the data API does and it cascades) every stored
\* rent payment stays stored with all its fields.
C22_LedgerAppendOnly ==
    [][(\A t \in tenants : t \in tenants') =>
          (\A r \in rent_payments : r \in rent_payments')]_vars

\* A payment is stored and a second record-payment for the same tenant and
\* period has just been refused.
C22_Witness ==
    /\ Cardinality(rent_payments) = 1
    /\ toast = [by |-> "a1", title |-> "Error", description |->
                  "Payment already recorded for this tenant and month"]

\* C23: when no call of a page is under way, the payments the page holds are
\* those of the selected month and year: RentTracking holds no payment of
\* another period than the one selected.
C23_ListIsOfSelectedPeriod ==
    LET v == view["a1"]
    IN  (v.route = "/rent" /\ ~v.loading /\ v.pending = {} /\ v.pc = "idle") =>
            \A r \in v.payments :
                r.month = v.selectedMonth /\ r.year = v.selectedYear

\* C24: on the admin Dashboard, whenever loading is false, Rent Paid plus
\* Rent Due is Total Tenants.
C24_PaidPlusDueIsTotal ==
    LET v == view["a2"]
    IN  (v.route = "/" /\ ~v.loading) =>
            Cardinality(v.paidTenants)
              + Cardinality(dueTenants(v.tenants, v.paidTenants))
            = Cardinality(v.tenants)

C26_NonAdminCannotWriteRoles ==
    [][\A p \in RoleCallers :
          (reply' # reply /\ reply'.by = p /\ ~has_role(p, "admin")) =>
             /\ user_roles' = user_roles
             /\ reply'.count = 0
             /\ reply'.command = "insert user_roles" => reply'.error = "42501"]_vars

\* The tenant u1 has just tried to insert an admin role and was refused,
\* while the admin had granted a role to n1 before.
C26_Witness ==
    /\ reply = [by |-> "u1", command |-> "insert user_roles",
                error |-> "42501", count |-> 0]
    /\ ~has_role("u1", "admin")
    /\ has_role("n1", "tenant")

\* C27: provisioning creates the principal, then the tenants row, then the
\* role row, and stops at the first failure: a tenants row it inserts is
\* linked to an existing principal, a role row it inserts belongs to a
\* principal that has a tenants row, it is inserted by a handler that waits
\* for its role insert, and the 'Tenant added' toast, the closing of the
\* dialog and the reset of the form come only with the role row.
C27_ProvisioningInOrder ==
    [][/\ \A t \in tenants' \ tenants :
             \E u \in auth_users : t.auth_user_id = Some(u.id)
       /\ \A r \in user_roles' \ user_roles :
             /\ r.role = "tenant"
             /\ \E t \in tenants : t.auth_user_id = Some(r.user_id)
             /\ \E p \in ProvisionSessions :
                   view[p].pc = "insertRole" /\ view[p].newUser = Some(r.user_id)
       /\ \A p \in ProvisionSessions :
             /\ (view[p].pc = "insertTenant" /\ tenants' # tenants) =>
                   view'[p].pc \in {"insertTenant", "insertRole"}
             /\ (\/ toast' # toast /\ toast'.by = p /\ toast'.title = "Tenant added"
                 \/ view[p].dialogOpen /\ ~view'[p].dialogOpen
                 \/ view[p].pc # "idle" /\ view'[p].tenantForm # view[p].tenantForm)
                  => user_roles' # user_roles]_vars

\* A provisioning has succeeded: the toast is shown, the dialog is closed,
\* and the new principal has its tenants row and its tenant role.
C27_Witness ==
    /\ toast.by = "a1" /\ toast.title = "Tenant added"
    /\ ~view["a1"].dialogOpen
    /\ view["a1"].tenantForm = EmptyTenantForm
    /\ \E r \in user_roles :
          /\ r.user_id \notin Users
          /\ \E t \in tenants : t.auth_user_id = Some(r.user_id)

\* C28: a request the submit-request page inserts has status open and the
\* tenant_id and room_no of the tenants row resolved for the signed-in user;
\* with no tenants row resolved, the handler shows 'Tenant information not
\* found' and inserts nothing.
C28_SubmittedRowIsOwnAndOpen ==
    [][/\ \A r \in maintenance_requests' \ maintenance_requests :
             /\ r.status = "open"
             /\ \E p \in SubmitSessions, t \in {TenantA, TenantB} :
                   /\ toast'.by = p
                   /\ t.auth_user_id = Some(p)
                   /\ view[p].tenantInfo = Some([id |-> t.id, room_no |-> t.room_no])
                   /\ r.tenant_id = t.id /\ r.room_no = t.room_no
       /\ \A p \in SubmitSessions :
             (view[p].tenantInfo = Null /\ toast' # toast /\ toast'.by = p) =>
                /\ toast'.title = "Error"
                /\ toast'.description = "Tenant information not found"
                /\ maintenance_requests' = maintenance_requests]_vars

\* u1's request is stored, and n1, for whom no tenants row was found, has
\* just been told so by the handler.
C28_Witness ==
    /\ \E r \in maintenance_requests : r.tenant_id = "T1" /\ r.status = "open"
    /\ ~view["n1"].loading /\ view["n1"].tenantInfo = Null
    /\ toast = [by |-> "n1", title |-> "Error",
                description |-> "Tenant information not found"]

\* C29: with the role known, a tenant is never left on an admin page and an
\* admin is never left on a tenant page: the gate navigates to '/'; and the
\* fetch of the page it mounted is issued all the same.
C29_GateNavigatesFetchIssued ==
    [][\A p \in MountSessions :
          /\ userRole'[p] = Some("tenant") => view'[p].route \notin AdminRoutes
          /\ userRole'[p] = Some("admin") => view'[p].route \notin TenantRoutes
          /\ \A r \in AdminRoutes \cup TenantRoutes :
                (/\ \/ userRole[p] = Some("tenant") /\ r \in AdminRoutes
                    \/ userRole[p] = Some("admin") /\ r \in TenantRoutes
                 /\ MountPage(p, r)) =>
                   /\ view'[p].route = "/"
                   /\ \E f \in view'[p].pending : f.kind = r]_vars

\* The tenant u1 has opened /tenants and the admin a1 /my-rent with their
\* roles known: both are on '/' and both fetches are under way.
C29_Witness ==
    /\ userRole["u1"] = Some("tenant") /\ view["u1"].route = "/"
    /\ \E f \in view["u1"].pending : f.kind = "/tenants"
    /\ userRole["a1"] = Some("admin") /\ view["a1"].route = "/"
    /\ \E f \in view["a1"].pending : f.kind = "/my-rent"

\* C30: on every route but /auth and the not-found route, the page is
\* rendered only when loading is over and a user is there; while loading,
\* only the placeholder is rendered; with loading over and no user, the
\* location is /auth.
C30_PageOnlyForSignedInUser ==
    \A b \in Browsers :
        /\ probe[b].rendered \in DataPages =>
              /\ ~probe[b].loading
              /\ probe[b].user # Null
              /\ probe[b].rendered = probe[b].path
        /\ (probe[b].loading /\ probe[b].path \in DataPages) =>
              probe[b].rendered = Placeholder
        /\ (~probe[b].loading /\ probe[b].user = Null) =>
              probe[b].path \notin DataPages

\* One browser shows /rent to a signed-in user, the other, whose session
\* was ended on a page, is at /auth.
C30_Witness ==
    /\ probe["b1"] = [loading |-> FALSE, user |-> Some("a1"), path |-> "/rent",
                      rendered |-> "/rent"]
    /\ probe["b2"] = [loading |-> FALSE, user |-> Null, path |-> "/auth",
                      rendered |-> "Auth"]

=============================================================================
